---- MODULE Spec2Model ----
(***************************************************************************)
(* A model of the template engine of minim (src/template.py): the lexer,   *)
(* the fragment classifier, the scope-stack compiler, the node tree and    *)
(* its renderer, template inheritance, the filter registry and the global  *)
(* context.                                                                *)
(*                                                                         *)
(* Text.  A Python str is a sequence of atoms.  The six delimiters "{{",   *)
(* "}}", "{%", "%}", "{#", "#}" are two-character atoms; every other atom  *)
(* (a letter, a digit, a punctuation sign, a keyword or a name) is an      *)
(* indivisible unit of text.  Concatenation is \o, ''.join is Concat.      *)
(*                                                                         *)
(* Values.  A Python value is a tagged record: [t |-> "none"],             *)
(* [t |-> "bool", v |-> TRUE], [t |-> "int", v |-> 3],                     *)
(* [t |-> "str", v |-> <<"a">>], [t |-> "list", v |-> <<...>>].            *)
(*                                                                         *)
(* Objects.  The nodes of a compiled tree live in a heap, a sequence of    *)
(* records indexed by node id (1 is the Root); children and the scope      *)
(* stack hold ids, as the Python lists hold references.  An attribute that *)
(* was never assigned is a field absent from the record, and reading it    *)
(* raises AttributeError.                                                  *)
(*                                                                         *)
(* Exceptions.  Every operation returns a record with a field err, "none"  *)
(* or the name of the exception class that propagates.                     *)
(***************************************************************************)
EXTENDS Integers, Sequences, FiniteSets, TLC

VARIABLES
    global_context,   \* MiniTemplate.global_context, the class attribute
    pc,               \* "idle", "compile", "ready" or "failed": the instance's life
    contents,         \* the argument of MiniTemplate(contents)
    template_string,  \* Compiler.template_string
    pending,          \* the fragments each_fragment has still to yield
    nodes,            \* the heap of node objects of the tree under self.root
    scope_stack,      \* Compiler.compile's scope_stack (node ids)
    ins,              \* the MiniTemplate instance: template_dir, has_ancestor, block_dicts
    merged_kwargs,    \* self.merged_kwargs, the context of the last render
    raised,           \* the exception the last operation raised, or "none"
    yielded,          \* the loop variable of Compiler.compile: the fragment last yielded
    calls,            \* the render calls made so far: context, result, exception
    injected          \* the number of inject_context calls made so far

vars == <<global_context, pc, contents, template_string, pending, nodes,
          scope_stack, ins, merged_kwargs, raised, yielded, calls, injected>>

-----------------------------------------------------------------------------
(* Bounds of the model *)

\* render calls per instance
MaxRenders == 2
\* inject_context calls
MaxInject == 1

-----------------------------------------------------------------------------
(* Text *)

VAR_TOKEN_START == "{{"
VAR_TOKEN_END == "}}"
COMMENT_TOKEN_START == "{#"
COMMENT_TOKEN_END == "#}"
BLOCK_TOKEN_START == "{%"
BLOCK_TOKEN_END == "%}"
RAW_NODE_END == <<"endraw">>

\* \s of the regular expressions and of str.strip / str.split
Whitespace == {" ", "\n", "\t"}

\* ''.join(parts)
RECURSIVE Concat(_)
Concat(parts) ==
    IF parts = <<>> THEN <<>> ELSE Head(parts) \o Concat(Tail(parts))

RECURSIVE LStrip(_)
LStrip(s) ==
    IF s # <<>> /\ Head(s) \in Whitespace THEN LStrip(Tail(s)) ELSE s

RECURSIVE RStrip(_)
RStrip(s) ==
    IF s # <<>> /\ s[Len(s)] \in Whitespace
    THEN RStrip(SubSeq(s, 1, Len(s) - 1))
    ELSE s

\* str.strip()
Strip(s) == RStrip(LStrip(s))

\* the least index of s holding an atom of the set, Len(s) + 1 when none does
FirstIn(s, set) ==
    IF \E i \in 1..Len(s) : s[i] \in set
    THEN CHOOSE i \in 1..Len(s) : s[i] \in set /\ \A j \in 1..(i - 1) : s[j] \notin set
    ELSE Len(s) + 1

\* str.split(sep) for a one-atom separator: empty parts are kept
RECURSIVE SplitOn(_, _)
SplitOn(s, sep) ==
    LET i == FirstIn(s, {sep})
    IN  IF i > Len(s)
        THEN <<s>>
        ELSE <<SubSeq(s, 1, i - 1)>> \o SplitOn(SubSeq(s, i + 1, Len(s)), sep)

\* str.split(): split on runs of whitespace, no empty parts
RECURSIVE SplitWS(_)
SplitWS(s) ==
    LET t == LStrip(s)
        n == FirstIn(t, Whitespace)
    IN  IF t = <<>>
        THEN <<>>
        ELSE <<SubSeq(t, 1, n - 1)>> \o SplitWS(SubSeq(t, n, Len(t)))

\* WHITESPACE.split(s): re.split(r'\s+', s); an empty part where s starts or
\* ends with whitespace, and [''] for the empty string
ReSplitWS(s) ==
    (IF s = <<>> \/ Head(s) \in Whitespace THEN <<(<<>>)>> ELSE <<>>)
    \o SplitWS(s)
    \o (IF s # <<>> /\ s[Len(s)] \in Whitespace
        THEN <<(<<>>)>> ELSE <<>>)

\* WHITESPACE.split(s, 1): at most one split
ReSplitWS1(s) ==
    LET n == FirstIn(s, Whitespace)
    IN  IF n > Len(s)
        THEN <<s>>
        ELSE <<SubSeq(s, 1, n - 1), LStrip(SubSeq(s, n, Len(s)))>>

\* str.replace(old, new), left to right, non-overlapping (old is not empty)
RECURSIVE Replace(_, _, _)
Replace(s, old, new) ==
    IF Len(s) < Len(old)
    THEN s
    ELSE IF SubSeq(s, 1, Len(old)) = old
         THEN new \o Replace(SubSeq(s, Len(old) + 1, Len(s)), old, new)
         ELSE <<Head(s)>> \o Replace(Tail(s), old, new)

-----------------------------------------------------------------------------
(* Values *)

VNone == [t |-> "none"]
VBool(b) == [t |-> "bool", v |-> b]
VInt(n) == [t |-> "int", v |-> n]
VStr(s) == [t |-> "str", v |-> s]
VList(xs) == [t |-> "list", v |-> xs]

Digits == <<"0", "1", "2", "3", "4", "5", "6", "7", "8", "9">>

\* str(n) of an int
RECURSIVE IntStr(_)
IntStr(n) ==
    IF n < 0 THEN <<"-">> \o IntStr(0 - n)
    ELSE IF n < 10 THEN <<Digits[n + 1]>>
    ELSE IntStr(n \div 10) \o <<Digits[(n % 10) + 1]>>

\* str(value); an item of a list is shown by its repr
RECURSIVE PyStr(_)
RECURSIVE PyRepr(_)
RECURSIVE JoinReprs(_)
PyStr(val) ==
    CASE val.t = "none" -> <<"None">>
      [] val.t = "bool" -> IF val.v THEN <<"True">> ELSE <<"False">>
      [] val.t = "int" -> IntStr(val.v)
      [] val.t = "str" -> val.v
      [] val.t = "list" -> <<"[">> \o JoinReprs(val.v) \o <<"]">>
      [] val.t = "loop" -> <<"<class '_Loop'>">>
PyRepr(val) ==
    IF val.t = "str" THEN <<"'">> \o val.v \o <<"'">> ELSE PyStr(val)
JoinReprs(xs) ==
    IF xs = <<>> THEN <<>>
    ELSE IF Len(xs) = 1 THEN PyRepr(xs[1])
    ELSE PyRepr(xs[1]) \o <<",", " ">> \o JoinReprs(Tail(xs))

\* bool(value), what `not x` and `if x` test
Truthy(val) ==
    CASE val.t = "none" -> FALSE
      [] val.t = "bool" -> val.v
      [] val.t = "int" -> val.v # 0
      [] val.t = "str" -> val.v # <<>>
      [] val.t = "list" -> val.v # <<>>
      [] val.t = "loop" -> TRUE

html_escape(s) ==
    Replace(Replace(Replace(Replace(Replace(PyStr(s),
        <<"&">>, <<"&", "a", "m", "p", ";">>),
        <<"<">>, <<"&", "l", "t", ";">>),
        <<">">>, <<"&", "g", "t", ";">>),
        <<"\"">>, <<"&", "q", "u", "o", "t", ";">>),
        <<"'">>, <<"&", "#", "0", "3", "9", ";">>)

-----------------------------------------------------------------------------
(* The lexer and the fragment classifier *)

Openers == {VAR_TOKEN_START, BLOCK_TOKEN_START, COMMENT_TOKEN_START}

Closer(a) ==
    CASE a = VAR_TOKEN_START -> VAR_TOKEN_END
      [] a = BLOCK_TOKEN_START -> BLOCK_TOKEN_END
      [] a = COMMENT_TOKEN_START -> COMMENT_TOKEN_END

\* TOK_REGEX matched at position i of s: the index of the closing delimiter
\* of the shortest match, 0 when there is no match at i ('.' matches no newline)
TokMatchEnd(s, i) ==
    IF s[i] \notin Openers
    THEN 0
    ELSE LET j == i + FirstIn(SubSeq(s, i + 1, Len(s)), {Closer(s[i])})
         IN  IF j > Len(s) \/ \E k \in (i + 1)..(j - 1) : s[k] = "\n"
             THEN 0
             ELSE j

\* TOK_REGEX.split(s): the text runs and the delimited spans, alternating,
\* empty text runs included (from: start of the current text run, i: scan position)
RECURSIVE TokSplitFrom(_, _, _)
TokSplitFrom(s, from, i) ==
    IF i > Len(s)
    THEN <<SubSeq(s, from, Len(s))>>
    ELSE LET e == TokMatchEnd(s, i)
         IN  IF e = 0
             THEN TokSplitFrom(s, from, i + 1)
             ELSE <<SubSeq(s, from, i - 1), SubSeq(s, i, e)>>
                  \o TokSplitFrom(s, e + 1, e + 1)

TOK_REGEX_split(s) == TokSplitFrom(s, 1, 1)

\* raw[:2]: the first atom when it is a two-character delimiter
Prefix2(raw) == IF raw = <<>> THEN "" ELSE Head(raw)

\* s[2:-2] of a string that starts with a delimiter: the first atom goes, and
\* the last two characters (one delimiter atom, else two one-character atoms)
Slice2(s) ==
    LET t == Tail(s)
        two == {VAR_TOKEN_START, VAR_TOKEN_END, BLOCK_TOKEN_START,
                BLOCK_TOKEN_END, COMMENT_TOKEN_START, COMMENT_TOKEN_END}
    IN  IF t = <<>> THEN <<>>
        ELSE IF t[Len(t)] \in two THEN SubSeq(t, 1, Len(t) - 1)
        ELSE SubSeq(t, 1, Len(t) - 2)

clean_fragment(raw) ==
    IF Prefix2(raw) \in {VAR_TOKEN_START, BLOCK_TOKEN_START}
    THEN Strip(Slice2(Strip(raw)))
    ELSE raw

\* _Fragment(raw_text)
Fragment(raw) == [raw |-> raw, clean |-> clean_fragment(raw)]

\* the atoms whose first three characters are 'end'
EndWords == {"end", "endif", "endfor", "endset", "endraw", "endblock",
             "endescape", "endwhile"}

\* clean[:3] == 'end'
StartsWithEnd(clean) == clean # <<>> /\ Head(clean) \in EndWords

\* _Fragment.type
FragType(f) ==
    CASE Prefix2(f.raw) = VAR_TOKEN_START -> "VAR_FRAGMENT"
      [] Prefix2(f.raw) = BLOCK_TOKEN_START ->
            IF StartsWithEnd(f.clean) THEN "CLOSE_BLOCK_FRAGMENT"
            ELSE "OPEN_BLOCK_FRAGMENT"
      [] Prefix2(f.raw) = COMMENT_TOKEN_START -> "COMMENT_FRAGMENT"
      [] OTHER -> "TEXT_FRAGMENT"

RECURSIVE NonEmptyFragments(_)
NonEmptyFragments(parts) ==
    IF parts = <<>> THEN <<>>
    ELSE (IF Head(parts) # <<>> THEN <<Fragment(Head(parts))>> ELSE <<>>)
         \o NonEmptyFragments(Tail(parts))

\* Compiler.each_fragment, as the list it yields
each_fragment(s) == NonEmptyFragments(TOK_REGEX_split(s))

-----------------------------------------------------------------------------
(* Contexts and expressions *)

\* {}
EmptyDict == [n \in {} |-> VNone]

\* {k: v}
Dict1(k, v) == [n \in {k} |-> v]

\* d.copy() followed by .update(e)
Updated(d, e) ==
    [n \in DOMAIN d \cup DOMAIN e |-> IF n \in DOMAIN e THEN e[n] ELSE d[n]]

\* the dict key a word of a tag names ('' when it is no single atom)
Key(word) == IF Len(word) = 1 THEN word[1] ELSE ""

\* the key of the context under which _Escape disables escaping
EscapeKey == "~>_<~"

\* context.get('~>_<~', '') == 'off'
EscapingOff(context) ==
    EscapeKey \in DOMAIN context /\ context[EscapeKey] = VStr(<<"off">>)

Keywords == {"True", "False", "None"}

IsDigit(a) == \E i \in 1..10 : Digits[i] = a

DigitValue(a) == (CHOOSE i \in 1..10 : Digits[i] = a) - 1

\* the atoms that are operators or brackets rather than names
Punctuation == {"=", "|", "(", ")", ",", ".", "'", "\"", "<", ">", "&", "[", "]",
                "{{", "}}", "{%", "%}", "{#", "#}", "-", "+", ":", "!", ";", "/", ""}

IsName(a) ==
    a \notin Punctuation \cup Whitespace \cup Keywords /\ ~IsDigit(a)

\* a literal: a digit, True, False, None, [] or a quoted string
IsLiteral(e) ==
    \/ Len(e) = 1 /\ (IsDigit(e[1]) \/ e[1] \in Keywords)
    \/ e = <<"[", "]">>
    \/ /\ Len(e) >= 2
       /\ e[1] = "'" /\ e[Len(e)] = "'"
       /\ \A i \in 2..(Len(e) - 1) : e[i] # "'"

LiteralValue(e) ==
    IF Len(e) = 1 /\ IsDigit(e[1]) THEN VInt(DigitValue(e[1]))
    ELSE IF e = <<"True">> THEN VBool(TRUE)
    ELSE IF e = <<"False">> THEN VBool(FALSE)
    ELSE IF e = <<"None">> THEN VNone
    ELSE IF e = <<"[", "]">> THEN VList(<<>>)
    ELSE VStr(SubSeq(e, 2, Len(e) - 1))

\* the value of the stripped expression e: a literal, a name looked up in
\* the context, or name.attribute of a loop object
EvalStripped(e, context) ==
    IF IsLiteral(e)
    THEN [err |-> "none", val |-> LiteralValue(e)]
    ELSE IF Len(e) = 1 /\ IsName(e[1])
    THEN IF e[1] \in DOMAIN context
         THEN [err |-> "none", val |-> context[e[1]]]
         ELSE [err |-> "NameError", val |-> VNone]
    ELSE IF Len(e) = 3 /\ IsName(e[1]) /\ e[2] = "." /\ IsName(e[3])
    THEN IF e[1] \notin DOMAIN context
         THEN [err |-> "NameError", val |-> VNone]
         ELSE IF context[e[1]].t = "loop" /\ e[3] \in DOMAIN context[e[1]].v
         THEN [err |-> "none", val |-> context[e[1]].v[e[3]]]
         ELSE [err |-> "AttributeError", val |-> VNone]
    ELSE [err |-> "SyntaxError", val |-> VNone]

\* the key eval inserts into its globals, and the value it refers to
BuiltinsKey == "__builtins__"
Builtins == [t |-> "builtins"]

\* the mapping eval(expr, context, {}) leaves: context is eval's globals, and
\* a globals dictionary without the key __builtins__ gets it inserted before
\* the expression is parsed
Evaluated(context) ==
    IF BuiltinsKey \in DOMAIN context THEN context
    ELSE Updated(context, Dict1(BuiltinsKey, Builtins))

\* the value of eval(expr, context, {}) for the expressions of the model
\* (no name of the model's templates is the name of a builtin)
PyEval(expr, context) == EvalStripped(Strip(expr), Evaluated(context))

LiteralStripped(e, expr) ==
    IF IsLiteral(e) THEN [err |-> "none", val |-> LiteralValue(e)]
    ELSE IF Len(e) = 1 /\ IsName(e[1]) THEN [err |-> "none", val |-> VStr(expr)]
    ELSE [err |-> "SyntaxError", val |-> VNone]

\* literal_eval(expr): ast.literal_eval, and the string itself on ValueError
\* (a name); any other malformed expression raises SyntaxError
literal_eval(expr) == LiteralStripped(Strip(expr), expr)

-----------------------------------------------------------------------------
(* The filters *)

do_unescape(s) ==
    Replace(Replace(Replace(Replace(Replace(PyStr(s),
        <<"&", "a", "m", "p", ";">>, <<"&">>),
        <<"&", "l", "t", ";">>, <<"<">>),
        <<"&", "g", "t", ";">>, <<">">>),
        <<"&", "q", "u", "o", "t", ";">>, <<"\"">>),
        <<"&", "#", "0", "3", "9", ";">>, <<"'">>)

do_trim(s) == Strip(PyStr(s))

\* the atoms with lower-case letters, and their upper case
LowerCase == <<"a", "b", "c", "g", "i", "l", "m", "o", "p", "q", "t", "u", "v", "x",
               "None", "True", "False", "none", "hello">>
UpperCase == <<"A", "B", "C", "G", "I", "L", "M", "O", "P", "Q", "T", "U", "V", "X",
               "NONE", "TRUE", "FALSE", "NONE", "HELLO">>

UpperAtom(a) ==
    IF \E i \in 1..Len(LowerCase) : LowerCase[i] = a
    THEN UpperCase[CHOOSE i \in 1..Len(LowerCase) : LowerCase[i] = a]
    ELSE a

UpperSeq(s) == [i \in 1..Len(s) |-> UpperAtom(s[i])]

do_upper(s) == UpperSeq(PyStr(s))

\* get_length(seq): len(seq), 0 on TypeError
get_length(seq) ==
    IF seq.t \in {"str", "list"} THEN VInt(Len(seq.v)) ELSE VInt(0)

\* set_default(value, arg): value or arg
set_default(value, arg) == IF Truthy(value) THEN value ELSE arg

\* the names registered in FILTERS that the model implements
FILTERS == {"safe", "trim", "upper", "length", "default"}

\* FILTERS[name](value, *args, **kwargs); any exception is reported as err
ApplyFilter(name, value, args, kwargs) ==
    IF Len(name) # 1 \/ name[1] \notin FILTERS
    THEN [err |-> "KeyError", val |-> VNone]
    ELSE IF name[1] = "default"
    THEN IF Len(args) = 1 /\ DOMAIN kwargs = {}
         THEN [err |-> "none", val |-> set_default(value, args[1])]
         ELSE IF args = <<>> /\ DOMAIN kwargs = {"arg"}
         THEN [err |-> "none", val |-> set_default(value, kwargs["arg"])]
         ELSE [err |-> "TypeError", val |-> VNone]
    ELSE IF args # <<>> \/ DOMAIN kwargs # {}
    THEN [err |-> "TypeError", val |-> VNone]
    ELSE [err |-> "none",
          val |-> CASE name[1] = "safe" -> VStr(do_unescape(value))
                    [] name[1] = "trim" -> VStr(do_trim(value))
                    [] name[1] = "upper" -> VStr(do_upper(value))
                    [] name[1] = "length" -> get_length(value)]

-----------------------------------------------------------------------------
(* The node classes: __init__ and process_fragment *)

\* the subclasses of _ScopeNode (creates_scope = True)
ScopeClasses == {"_Block", "_Escape", "_Set", "_For", "_If", "_Raw"}

creates_scope(node) == node.cls \in ScopeClasses

\* _Node.__init__ before process_fragment
NewNode(cls, fragment) == [cls |-> cls, frag |-> fragment, children |-> <<>>]

\* the node a constructor returns, and the exception it raises instead
OkNode(node) == [err |-> "none", node |-> node]
BadNode(e, node) == [err |-> e, node |-> node]

\* bracket_reg.split(func) with bracket_reg = (\(.*\)): the text before the
\* first "(", the span up to the last ")", the text after it
BracketSplitAt(func, open, closes) ==
    IF open > Len(func) \/ closes = {}
    THEN <<func>>
    ELSE <<SubSeq(func, 1, open - 1),
           SubSeq(func, open, CHOOSE j \in closes : \A k \in closes : k <= j),
           SubSeq(func, (CHOOSE j \in closes : \A k \in closes : k <= j) + 1, Len(func))>>

BracketSplitFrom(func, open) ==
    BracketSplitAt(func, open, {j \in (open + 1)..Len(func) : func[j] = ")"})

BracketSplit(func) == BracketSplitFrom(func, FirstIn(func, {"("}))

\* args.append(literal_eval(it))
AddArg(r, acc) ==
    IF r.err # "none" THEN [acc EXCEPT !.err = r.err]
    ELSE [acc EXCEPT !.args = Append(@, r.val)]

\* kwargs[ls.strip()] = literal_eval(rs.strip())
AddKwarg(ls, r, acc) ==
    IF r.err # "none" THEN [acc EXCEPT !.err = r.err]
    ELSE [acc EXCEPT !.kwargs = Updated(@, Dict1(Key(ls), r.val))]

\* ls, rs = it.split('=')
ParseKwarg(sides, acc) ==
    IF Len(sides) # 2 THEN [acc EXCEPT !.err = "ValueError"]
    ELSE AddKwarg(Strip(sides[1]), literal_eval(Strip(sides[2])), acc)

\* one parameter of a filter call
ParseParam(it, acc) ==
    IF \E i \in 1..Len(it) : it[i] = "="
    THEN ParseKwarg(SplitOn(it, "="), acc)
    ELSE AddArg(literal_eval(it), acc)

\* the loop over param_list in resolve_filter
RECURSIVE ParseParams(_, _)
ParseParams(param_list, acc) ==
    IF param_list = <<>> \/ acc.err # "none" THEN acc
    ELSE ParseParams(Tail(param_list), ParseParam(Head(param_list), acc))

NoParams == [err |-> "none", args |-> <<>>, kwargs |-> EmptyDict]

\* the args and kwargs of one filter call: params = re_list[1][1:-1]
FilterParams(re_list) ==
    IF Len(re_list) > 1 /\ Len(re_list[2]) > 2
    THEN ParseParams(SplitOn(SubSeq(re_list[2], 2, Len(re_list[2]) - 1), ","), NoParams)
    ELSE NoParams

\* AddCallback with self.callbacks.insert(0, ...) in place of append
AddCallback_inserted(re_list, parsed, rest) ==
    IF parsed.err # "none" THEN [err |-> parsed.err, callbacks |-> <<>>]
    ELSE IF rest.err # "none" THEN rest
    ELSE [err |-> "none",
          callbacks |-> rest.callbacks \o <<[name |-> re_list[1], args |-> parsed.args,
                                            kwargs |-> parsed.kwargs]>>]

\* self.callbacks.append([re_list[0], args, kwargs])
AddCallback(re_list, parsed, rest) ==
    IF parsed.err # "none" THEN [err |-> parsed.err, callbacks |-> <<>>]
    ELSE IF rest.err # "none" THEN rest
    ELSE [err |-> "none",
          callbacks |-> <<[name |-> re_list[1], args |-> parsed.args,
                           kwargs |-> parsed.kwargs]>> \o rest.callbacks]

\* _Variable.resolve_filter: the callbacks [name, args, kwargs] of bits[1:]
RECURSIVE resolve_filter(_)
ResolveOne(re_list, funcs) ==
    AddCallback(re_list, FilterParams(re_list), resolve_filter(funcs))
resolve_filter(funcs) ==
    IF funcs = <<>> THEN [err |-> "none", callbacks |-> <<>>]
    ELSE ResolveOne(BracketSplit(do_trim(VStr(Head(funcs)))), Tail(funcs))

\* and_reg.split(expr) with and_reg = \s*and\s*
AndParts(parts) ==
    [k \in 1..Len(parts) |->
        IF k = 1 /\ k = Len(parts) THEN parts[k]
        ELSE IF k = 1 THEN RStrip(parts[k])
        ELSE IF k = Len(parts) THEN LStrip(parts[k])
        ELSE Strip(parts[k])]

AndSplit(expr) == AndParts(SplitOn(expr, "and"))

\* _Extends.process_fragment, _Include.process_fragment
Extends_process_fragment(node, words) ==
    IF Len(words) < 2 THEN BadNode("IndexError", node)
    ELSE OkNode(node @@ [filename |-> words[2]])

\* _Block.process_fragment
Block_process_fragment(node, words) ==
    IF Len(words) < 2 THEN BadNode("IndexError", node)
    ELSE OkNode(node @@ [block_name |-> words[2]])

\* _Text.process_fragment
Text_process_fragment(node, fragment) == OkNode(node @@ [text |-> fragment])

Variable_filters(node, var, r) ==
    IF r.err # "none" THEN BadNode(r.err, node)
    ELSE OkNode(node @@ [has_filter |-> TRUE, var |-> var, callbacks |-> r.callbacks])

\* _Variable.process_fragment, bits = fragment.split('|')
Variable_process_fragment(node, bits) ==
    IF Len(bits) > 1
    THEN Variable_filters(node, Strip(bits[1]), resolve_filter(Tail(bits)))
    ELSE OkNode(node @@ [has_filter |-> FALSE, var |-> Strip(bits[1])])

\* _Escape.process_fragment
Escape_process_fragment(node, words) ==
    IF Len(words) < 2 THEN BadNode("TemplateSyntaxError", node)
    ELSE IF words[2] \notin {<<"on">>, <<"off">>, <<"ON">>, <<"OFF">>}
    THEN BadNode("TemplateSyntaxError", node)
    ELSE OkNode(node @@ [direc |-> words[2]])

\* _Set.process_fragment, two = WHITESPACE.split(fragment, 1)
Set_process_fragment(node, two) ==
    IF Len(two) # 2 THEN BadNode("TemplateSyntaxError", node)
    ELSE OkNode(node @@ [args |-> AndSplit(two[2])])

\* _For.process_fragment, bits = WHITESPACE.split(fragment)
For_process_fragment(node, bits) ==
    IF Len(bits) < 4 THEN BadNode("TemplateSyntaxError", node)
    ELSE OkNode(node @@ [loop_var |-> bits[2], raw_expr |-> bits[4]])

\* _If.process_fragment, _Elif.process_fragment
If_process_fragment(node, words) ==
    IF Len(words) < 2 THEN BadNode("TemplateSyntaxError", node)
    ELSE OkNode(node @@ [expr |-> words[2]])

\* _Else.process_fragment
Else_process_fragment(node) == OkNode(node @@ [expr |-> <<"1">>])

\* node_class(self.ins, fragment.clean): the new node, or the exception that
\* process_fragment raises
process_fragment(cls, fragment) ==
    CASE cls \in {"_Extends", "_Include"} ->
            Extends_process_fragment(NewNode(cls, fragment), SplitWS(fragment))
      [] cls = "_Block" ->
            Block_process_fragment(NewNode(cls, fragment), SplitWS(fragment))
      [] cls = "_Text" -> Text_process_fragment(NewNode(cls, fragment), fragment)
      [] cls = "_Variable" ->
            Variable_process_fragment(NewNode(cls, fragment), SplitOn(fragment, "|"))
      [] cls = "_Escape" ->
            Escape_process_fragment(NewNode(cls, fragment), SplitWS(fragment))
      [] cls = "_Set" ->
            Set_process_fragment(NewNode(cls, fragment), ReSplitWS1(fragment))
      [] cls = "_For" ->
            For_process_fragment(NewNode(cls, fragment), ReSplitWS(fragment))
      [] cls \in {"_If", "_Elif"} ->
            If_process_fragment(NewNode(cls, fragment), SplitWS(fragment))
      [] cls = "_Else" -> Else_process_fragment(NewNode(cls, fragment))
      [] OTHER -> OkNode(NewNode(cls, fragment))

\* the keyword dispatch of create_node
NodeClassOf(cmd) ==
    CASE cmd = <<"extends">> -> "_Extends"
      [] cmd = <<"block">> -> "_Block"
      [] cmd = <<"include">> -> "_Include"
      [] cmd = <<"for">> -> "_For"
      [] cmd = <<"empty">> -> "_Empty"
      [] cmd = <<"if">> -> "_If"
      [] cmd = <<"elif">> -> "_Elif"
      [] cmd = <<"else">> -> "_Else"
      [] cmd = <<"set">> -> "_Set"
      [] cmd = <<"raw">> -> "_Raw"
      [] cmd = <<"escape">> -> "_Escape"
      [] OTHER -> "None"

\* node_class of create_node, for a fragment of the given type whose clean
\* text splits into words
node_class(type, words) ==
    CASE type = "TEXT_FRAGMENT" -> "_Text"
      [] type = "VAR_FRAGMENT" -> "_Variable"
      [] type = "COMMENT_FRAGMENT" -> "_Comment"
      [] type = "OPEN_BLOCK_FRAGMENT" -> NodeClassOf(words[1])
      [] OTHER -> "None"

\* CreateNodeOf that makes a comment of a tag without a node class
CreateNodeOf_lenient(fragment, cls) ==
    IF cls = "None"
    THEN OkNode(NewNode("_Comment", fragment.clean))
    ELSE process_fragment(cls, fragment.clean)

\* if node_class is None: raise TemplateSyntaxError(fragment)
\* return node_class(self.ins, fragment.clean)
CreateNodeOf(fragment, cls) ==
    IF cls = "None"
    THEN BadNode("TemplateSyntaxError", NewNode(cls, fragment.clean))
    ELSE process_fragment(cls, fragment.clean)

CreateNodeAs(fragment, type, words) ==
    IF type = "OPEN_BLOCK_FRAGMENT" /\ words = <<>>
    THEN \* fragment.clean.split()[0]
         BadNode("IndexError", NewNode("None", fragment.clean))
    ELSE CreateNodeOf(fragment, node_class(type, words))

\* Compiler.create_node
create_node(fragment) ==
    CreateNodeAs(fragment, FragType(fragment), SplitWS(fragment.clean))

-----------------------------------------------------------------------------
(* exit_scope: the partition of the children of _For and _If *)

\* the index of the first _Empty child, Len(children) + 1 when there is none
FirstEmpty(heap, children) ==
    IF \E i \in 1..Len(children) : heap[children[i]].cls = "_Empty"
    THEN CHOOSE i \in 1..Len(children) :
            /\ heap[children[i]].cls = "_Empty"
            /\ \A j \in 1..(i - 1) : heap[children[j]].cls # "_Empty"
    ELSE Len(children) + 1

SplitAtEmpty(heap, children, first) ==
    <<SubSeq(children, 1, first - 1),
      SelectSeq(SubSeq(children, first + 1, Len(children)),
                LAMBDA c : heap[c].cls # "_Empty")>>

\* _For.split_children: [main_branch, empty_branch]
For_split_children(heap, children) ==
    SplitAtEmpty(heap, children, FirstEmpty(heap, children))

\* the loop of _If.split_children over the children, with the branches so
\* far, the open branch and its condition
RECURSIVE If_split_loop(_, _, _, _, _)
\* split_children without 'branch = []' after a marker
If_split_loop_unreset(heap, children, branches, branch, expr) ==
    IF children = <<>>
    THEN Append(branches, [expr |-> expr, children |-> branch])
    ELSE IF heap[Head(children)].cls \in {"_Elif", "_Else"}
         THEN If_split_loop(heap, Tail(children),
                  Append(branches, [expr |-> expr, children |-> branch]),
                  branch, heap[Head(children)].expr)
         ELSE If_split_loop(heap, Tail(children), branches,
                  Append(branch, Head(children)), expr)

If_split_loop(heap, children, branches, branch, expr) ==
    IF children = <<>>
    THEN Append(branches, [expr |-> expr, children |-> branch])
    ELSE IF heap[Head(children)].cls \in {"_Elif", "_Else"}
         THEN If_split_loop(heap, Tail(children),
                  Append(branches, [expr |-> expr, children |-> branch]),
                  <<>>, heap[Head(children)].expr)
         ELSE If_split_loop(heap, Tail(children), branches,
                  Append(branch, Head(children)), expr)

\* _If.split_children: the [condition, branch] pairs
If_split_children(heap, id) ==
    If_split_loop(heap, heap[id].children, <<>>, <<>>, heap[id].expr)

\* parent_scope.exit_scope()
exit_scope(heap, id) ==
    CASE heap[id].cls = "_For" ->
            [heap EXCEPT ![id] = [branches |-> For_split_children(heap, @.children)] @@ @]
      [] heap[id].cls = "_If" ->
            [heap EXCEPT ![id] = [branches |-> If_split_children(heap, id)] @@ @]
      [] OTHER -> heap

-----------------------------------------------------------------------------
(* The compiler *)

\* the state of Compiler.compile before its loop: the heap holds the Root
CompileStart ==
    [nodes |-> <<NewNode("_Root", <<>>)>>, scope_stack |-> <<1>>, err |-> "none"]

\* parent_scope.children.append(x)
AppendChild(heap, parent, x) ==
    [heap EXCEPT ![parent] = [@ EXCEPT !.children = Append(@, x)]]

\* parent_scope.save_end_tok(fragment)
save_end_tok(heap, id, fragment) ==
    [heap EXCEPT ![id] = [end_tok |-> fragment] @@ @]

\* scope_stack.pop()
Pop(stack) == SubSeq(stack, 1, Len(stack) - 1)

\* the branch of compile's loop for a close tag
CloseScope(st, fragment, parent_scope, parent_cls) ==
    IF parent_cls = "_Raw" /\ fragment.clean # RAW_NODE_END
    THEN [st EXCEPT !.nodes = AppendChild(@, parent_scope, fragment.raw)]
    ELSE IF parent_cls \notin ScopeClasses
    THEN \* _Root has no save_end_tok
         [st EXCEPT !.err = "AttributeError"]
    ELSE [st EXCEPT
             !.nodes = exit_scope(save_end_tok(@, parent_scope, fragment), parent_scope),
             !.scope_stack = Pop(@)]

\* AddNode with root.children.append(new_node) in place of parent_scope's
AddNode_at_root(st, fragment, parent_scope, parent_cls, new) ==
    IF new.err # "none"
    THEN [st EXCEPT !.err = new.err]
    ELSE IF parent_cls = "_Raw"
    THEN [st EXCEPT !.nodes = AppendChild(@, parent_scope, fragment.raw)]
    ELSE [st EXCEPT
             !.nodes = Append(AppendChild(@, 1, Len(st.nodes) + 1), new.node),
             !.scope_stack = IF creates_scope(new.node)
                             THEN Append(@, Len(st.nodes) + 1) ELSE @]

\* the rest of compile's loop, once create_node has returned new
AddNode(st, fragment, parent_scope, parent_cls, new) ==
    IF new.err # "none"
    THEN [st EXCEPT !.err = new.err]
    ELSE IF parent_cls = "_Raw"
    THEN [st EXCEPT !.nodes = AppendChild(@, parent_scope, fragment.raw)]
    ELSE [st EXCEPT
             !.nodes = Append(AppendChild(@, parent_scope, Len(st.nodes) + 1), new.node),
             !.scope_stack = IF creates_scope(new.node)
                             THEN Append(@, Len(st.nodes) + 1) ELSE @]

CompileIn(st, fragment, parent_scope, parent_cls) ==
    IF FragType(fragment) = "CLOSE_BLOCK_FRAGMENT"
    THEN CloseScope(st, fragment, parent_scope, parent_cls)
    ELSE AddNode(st, fragment, parent_scope, parent_cls, create_node(fragment))

\* one iteration of the loop of Compiler.compile, on one fragment
compile_step(st, fragment) ==
    IF st.scope_stack = <<>>
    THEN [st EXCEPT !.err = "TemplateError"]
    ELSE CompileIn(st, fragment, st.scope_stack[Len(st.scope_stack)],
                   st.nodes[st.scope_stack[Len(st.scope_stack)]].cls)

\* the whole loop of Compiler.compile over the fragments still to come
RECURSIVE compile_loop(_, _)
compile_loop(st, fragments) ==
    IF fragments = <<>> \/ st.err # "none"
    THEN st
    ELSE compile_loop(compile_step(st, Head(fragments)), Tail(fragments))

-----------------------------------------------------------------------------
(* Template files and Compiler.add_content *)

\* the directory that holds the template files
TemplateDir == "tpl"

\* os.path.join(dir, filename)
Path(dir, filename) == <<dir, "/">> \o filename

\* words joined by single spaces
RECURSIVE Words(_)
Words(ws) ==
    IF ws = <<>> THEN <<>>
    ELSE IF Len(ws) = 1 THEN <<ws[1]>>
    ELSE <<ws[1], " ">> \o Words(Tail(ws))

\* the source text {% words %} and {{ words }}
BlockTag(ws) == <<BLOCK_TOKEN_START, " ">> \o Words(ws) \o <<" ", BLOCK_TOKEN_END>>
VarTag(ws) == <<VAR_TOKEN_START, " ">> \o Words(ws) \o <<" ", VAR_TOKEN_END>>

\* the template files on disk: name -> text
Files ==
    [n \in {"base", "child", "mid", "grand", "inc", "incchild", "emptychild",
            "textchild"} |->
        CASE n = "base" ->
                <<"<">> \o BlockTag(<<"block", "c">>) \o <<"D">>
                \o BlockTag(<<"endblock">>) \o <<">">>
          [] n = "child" ->
                BlockTag(<<"extends", "base">>) \o BlockTag(<<"block", "c">>)
                \o VarTag(<<"x">>) \o BlockTag(<<"endblock">>) \o <<"T">>
          [] n = "mid" ->
                BlockTag(<<"extends", "base">>) \o BlockTag(<<"block", "c">>)
                \o <<"M">> \o BlockTag(<<"endblock">>)
          [] n = "grand" ->
                BlockTag(<<"extends", "mid">>) \o BlockTag(<<"block", "c">>)
                \o <<"G">> \o BlockTag(<<"endblock">>)
          [] n = "emptychild" ->
                BlockTag(<<"extends", "base">>) \o BlockTag(<<"block", "c">>)
                \o BlockTag(<<"endblock">>)
          [] n = "textchild" ->
                <<"L">> \o BlockTag(<<"extends", "base">>) \o BlockTag(<<"block", "c">>)
                \o VarTag(<<"x">>) \o BlockTag(<<"endblock">>) \o <<"T">>
          [] n = "inc" ->
                <<"I">> \o VarTag(<<"x">>)
          [] n = "incchild" ->
                BlockTag(<<"extends", "base">>) \o BlockTag(<<"block", "b">>)
                \o BlockTag(<<"include", "inc">>) \o BlockTag(<<"endblock">>)
                \o BlockTag(<<"block", "c">>) \o <<"X">> \o BlockTag(<<"endblock">>)]

\* os.path.isfile(path)
IsFile(path) ==
    Len(path) = 3 /\ path[1] = TemplateDir /\ path[2] = "/" /\ path[3] \in DOMAIN Files

\* the lines of a text, each with its newline
RECURSIVE Lines(_)
LinesAt(text, n) ==
    IF n > Len(text) THEN <<text>>
    ELSE <<SubSeq(text, 1, n)>> \o Lines(SubSeq(text, n + 1, Len(text)))
Lines(text) ==
    IF text = <<>> THEN <<>> ELSE LinesAt(text, FirstIn(text, {"\n"}))

\* re.search of {%\s*word\s*%} in a line
HasTag(line, word) ==
    \E i \in 1..Len(line) : \E j \in (i + 1)..Len(line) :
        /\ line[i] = BLOCK_TOKEN_START /\ line[j] = BLOCK_TOKEN_END
        /\ Strip(SubSeq(line, i + 1, j - 1)) = <<word>>

\* ptn.search(line) with ptn = ^\s*({%.*?%}|{#.*?#})
StartsWithTag(t) ==
    /\ t # <<>>
    /\ Head(t) \in {BLOCK_TOKEN_START, COMMENT_TOKEN_START}
    /\ TokMatchEnd(t, 1) # 0

\* line.replace('\n', '').strip() when ptn matches outside a raw block
CleanLine(line, raw_scope) ==
    IF StartsWithTag(LStrip(line)) /\ ~raw_scope
    THEN Strip(SelectSeq(line, LAMBDA a : a # "\n"))
    ELSE line

\* raw_scope after a line has been yielded
RawScopeAfter(line, raw_scope) ==
    IF HasTag(line, "raw") /\ ~HasTag(line, "endraw") THEN TRUE ELSE raw_scope

\* _file_generator with remove_newlines: a line that starts with a tag
\* outside a raw block loses its newline and its surrounding whitespace
RECURSIVE file_generator(_, _)
YieldLine(out, scope, lines) ==
    out \o file_generator(lines, RawScopeAfter(out, scope))
LineInScope(line, scope, lines) ==
    YieldLine(CleanLine(line, scope), scope, lines)
file_generator(lines, raw_scope) ==
    IF lines = <<>> THEN <<>>
    ELSE LineInScope(Head(lines),
                     IF HasTag(Head(lines), "endraw") THEN FALSE ELSE raw_scope,
                     Tail(lines))

\* Compiler.add_content: the template string and the template_dir it leaves
add_content(path_or_string, inst) ==
    IF IsFile(path_or_string)
    THEN [template_string |-> file_generator(Lines(Files[path_or_string[3]]), FALSE),
          ins |-> [inst EXCEPT !.template_dir = VStr(<<path_or_string[1]>>)]]
    ELSE [template_string |-> path_or_string, ins |-> inst]

-----------------------------------------------------------------------------
(* Rendering.  render returns the value the node's render method returns    *)
(* (val), the exception it raises (err), and what the call leaves behind:   *)
(* the heap of the tree, the MiniTemplate instance and the context mapping  *)
(* it was handed, all three passed by reference in the code.                *)

\* TemplateFilterError(filter_func): the exception object, which a result
\* whose err is TemplateFilterError carries as its val
TemplateFilterError(filter_func) ==
    [t |-> "TemplateFilterError", filter_func |-> filter_func]

Res(val, err, heap, inst, context) ==
    [val |-> val, err |-> err, heap |-> heap, ins |-> inst, context |-> context]

\* render_child of render_children: '' if not child_html else str(child_html)
render_child_html(child_html) ==
    IF ~Truthy(child_html) THEN <<>> ELSE PyStr(child_html)

\* the loop of _Variable.render over self.callbacks
RECURSIVE apply_callbacks(_, _, _)
\* NextCallback with 'except: value = None' in place of the raise
NextCallback_swallowed(callbacks, safe_flag, callback_name, r) ==
    apply_callbacks(callbacks, IF r.err # "none" THEN VNone ELSE r.val, safe_flag)

\* the try statement of the loop: the filter returned or raised r
NextCallback(callbacks, safe_flag, callback_name, r) ==
    IF r.err # "none"
    THEN \* except: raise TemplateFilterError(callback_name)
         [err |-> "TemplateFilterError", val |-> TemplateFilterError(callback_name),
          safe_flag |-> safe_flag]
    ELSE apply_callbacks(callbacks, r.val, safe_flag)
apply_callbacks(callbacks, value, safe_flag) ==
    IF callbacks = <<>>
    THEN [err |-> "none", val |-> value, safe_flag |-> safe_flag]
    ELSE NextCallback(Tail(callbacks),
                      safe_flag \/ Head(callbacks).name = <<"safe">>,
                      Head(callbacks).name,
                      ApplyFilter(Head(callbacks).name, value,
                                  Head(callbacks).args, Head(callbacks).kwargs))

\* Variable_filtered with the safe flag left out of the test
Variable_filtered_unflagged(context, f) ==
    IF f.err # "none" THEN [err |-> f.err, val |-> f.val]
    ELSE [err |-> "none",
          val |-> IF EscapingOff(context) THEN f.val ELSE VStr(html_escape(f.val))]

\* the return statements of _Variable.render with filters
Variable_filtered(context, f) ==
    IF f.err # "none" THEN [err |-> f.err, val |-> f.val]
    ELSE [err |-> "none",
          val |-> IF f.safe_flag \/ EscapingOff(context)
                  THEN f.val ELSE VStr(html_escape(f.val))]

\* _Variable.render once the expression has its value
Variable_value(node, context, value) ==
    IF ~node.has_filter
    THEN [err |-> "none",
          val |-> IF EscapingOff(context) THEN value ELSE VStr(html_escape(value))]
    ELSE Variable_filtered(context, apply_callbacks(node.callbacks, value, FALSE))

\* try: value = eval(self.var, context, {}) except: value = None
Variable_eval(e) == IF e.err # "none" THEN VNone ELSE e.val

\* _Variable.render
Variable_render(node, context) ==
    Variable_value(node, context, Variable_eval(PyEval(node.var, context)))

\* the loop of _Set.render over self.args: the bindings of new_context
\* and the mapping context that the calls of eval leave
RECURSIVE Set_bindings(_, _, _)
\* Set_bind with the new binding put into the context of the later evals
Set_bind_threaded(args, context, new_context, n, value) ==
    IF value.err # "none"
    THEN [err |-> value.err, new_context |-> new_context, context |-> context]
    ELSE IF ~(Len(n) = 1 /\ IsName(n[1]))
    THEN [err |-> "SyntaxError", new_context |-> new_context, context |-> context]
    ELSE Set_bindings(args, Updated(context, Dict1(n[1], value.val)),
                      Updated(new_context, Dict1(n[1], value.val)))

Set_bind(args, context, new_context, n, value) ==
    IF value.err # "none"
    THEN [err |-> value.err, new_context |-> new_context, context |-> context]
    ELSE IF ~(Len(n) = 1 /\ IsName(n[1]))
    THEN [err |-> "SyntaxError", new_context |-> new_context, context |-> context]
    ELSE Set_bindings(args, context, Updated(new_context, Dict1(n[1], value.val)))
Set_arg(args, context, new_context, sides) ==
    IF Len(sides) # 2
    THEN [err |-> "ValueError", new_context |-> new_context, context |-> context]
    ELSE Set_bind(args, Evaluated(context), new_context, Strip(sides[1]),
                  PyEval(sides[2], context))
Set_bindings(args, context, new_context) ==
    IF args = <<>>
    THEN [err |-> "none", new_context |-> new_context, context |-> context]
    ELSE Set_arg(Tail(args), context, new_context, SplitOn(Head(args), "="))

\* bd.get(self.block_name, '')
BlockGet(bd, block_name) == IF block_name \in DOMAIN bd THEN bd[block_name] ELSE <<>>

\* the first override of reversed(self.ins.block_dicts) that is not empty
RECURSIVE lookup_block(_, _)
lookup_block(block_dicts, block_name) ==
    IF block_dicts = <<>> THEN <<>>
    ELSE IF BlockGet(block_dicts[Len(block_dicts)], block_name) # <<>>
    THEN BlockGet(block_dicts[Len(block_dicts)], block_name)
    ELSE lookup_block(Pop(block_dicts), block_name)

\* the loop object with 'index': idx in place of 'index': idx + 1
Loop_zero_based(i, n) ==
    [t |-> "loop",
     v |-> [length |-> VInt(n), index |-> VInt(i - 1),
            first |-> VBool(i = 1), last |-> VBool(i = n)]]

\* the loop object of _For.render at item i of n
Loop(i, n) ==
    [t |-> "loop",
     v |-> [length |-> VInt(n), index |-> VInt(i),
            first |-> VBool(i = 1), last |-> VBool(i = n)]]

\* inner_context of render_item
InnerContext(context, loop_var, item, loop) ==
    Updated(context, Updated(Dict1(Key(loop_var), item), Dict1("loop", loop)))

\* for item in items, of a str (its characters) or a list
Iterate(val) ==
    IF val.t = "str" THEN [i \in 1..Len(val.v) |-> VStr(<<val.v[i]>>)] ELSE val.v

\* the closing keyword each scope class checks in its render
EndKeyword(cls) ==
    CASE cls = "_Block" -> <<"endblock">>
      [] cls = "_Escape" -> <<"endescape">>
      [] cls = "_Set" -> <<"endset">>
      [] cls = "_For" -> <<"endfor">>
      [] cls = "_If" -> <<"endif">>
      [] cls = "_Raw" -> <<"endraw">>

RECURSIVE render(_, _, _, _)
RECURSIVE render_children(_, _, _, _)
RECURSIVE For_loop(_, _, _, _, _, _)
RECURSIVE If_branches(_, _, _, _)
RECURSIVE Root_blocks(_, _, _, _)

\* ''.join of one child's text and the text of the children after it
JoinChildren(html, rest) ==
    IF rest.err # "none" THEN rest
    ELSE [rest EXCEPT !.val = VStr(html \o rest.val.v)]

RestChildren(r, children) ==
    IF r.err # "none" THEN r
    ELSE JoinChildren(render_child_html(r.val),
                      render_children(r.heap, children, r.context, r.ins))

\* _Node.render_children(context, children)
render_children(heap, children, context, inst) ==
    IF children = <<>>
    THEN Res(VStr(<<>>), "none", heap, inst, context)
    ELSE RestChildren(render(heap, Head(children), context, inst), Tail(children))

\* render_item returned r: the items after it, rendered against copies of
\* the context the _For node was given
RestItems(r, id, context, items, i) ==
    IF r.err # "none" THEN [r EXCEPT !.context = context]
    ELSE JoinChildren(r.val.v, For_loop(r.heap, id, context, r.ins, items, i))

\* the loop of _For.render over enumerate(items), from item i on
For_loop(heap, id, context, inst, items, i) ==
    IF i > Len(items)
    THEN Res(VStr(<<>>), "none", heap, inst, context)
    ELSE RestItems(render_children(heap, heap[id].children,
                       InnerContext(context, heap[id].loop_var, items[i],
                                    Loop(i, Len(items))),
                       inst),
                   id, context, items, i + 1)

\* If_branch that renders the last branch whose condition is truthy
If_branch_last(heap, branches, context, inst, con_bit) ==
    IF con_bit.err # "none"
    THEN Res(VNone, con_bit.err, heap, inst, context)
    ELSE IF Truthy(con_bit.val)
            /\ \A k \in 2..Len(branches) :
                  ~Truthy(Variable_eval(PyEval(branches[k].expr, context)))
    THEN render_children(heap, Head(branches).children, context, inst)
    ELSE If_branches(heap, Tail(branches), context, inst)

\* one branch of _If.render, con_bit being the value of its condition
If_branch(heap, branches, context, inst, con_bit) ==
    IF con_bit.err # "none"
    THEN Res(VNone, con_bit.err, heap, inst, context)
    ELSE IF Truthy(con_bit.val)
    THEN render_children(heap, Head(branches).children, context, inst)
    ELSE If_branches(heap, Tail(branches), context, inst)

\* the loop of _If.render over self.branches
If_branches(heap, branches, context, inst) ==
    IF branches = <<>>
    THEN Res(VNone, "none", heap, inst, context)
    ELSE If_branch(heap, branches, Evaluated(context), inst,
                   PyEval(Head(branches).expr, context))

RestBlocks(r, children) ==
    IF r.err # "none" THEN r
    ELSE Root_blocks(r.heap, children, r.context, r.ins)

\* the loop of _Root.render that renders every direct _Block child
Root_blocks(heap, children, context, inst) ==
    IF children = <<>>
    THEN Res(VNone, "none", heap, inst, context)
    ELSE IF heap[Head(children)].cls # "_Block"
    THEN Root_blocks(heap, Tail(children), context, inst)
    ELSE RestBlocks(render(heap, Head(children), context, inst), Tail(children))

\* root.render(context) of a template compiled during a render: the tree is
\* dropped afterwards, the heap of the calling tree stays as it was
RenderCompiled(heap, st, context, inst) ==
    IF st.err # "none"
    THEN Res(VNone, st.err, heap, inst, context)
    ELSE [render(st.nodes, 1, context, inst) EXCEPT !.heap = heap]

CompileAdded(heap, added, context) ==
    RenderCompiled(heap,
                   compile_loop(CompileStart, each_fragment(added.template_string)),
                   context, added.ins)

\* _Extends.render and _Include.render: compile the named file with the
\* instance's compiler and render its Root against the same context
Template_render(heap, node, context, inst) ==
    IF inst.template_dir = VNone
    THEN \* os.path.join(None, filename)
         Res(VNone, "TypeError", heap, inst, context)
    ELSE CompileAdded(heap,
                      add_content(Path(inst.template_dir.v[1], node.filename), inst),
                      context)

\* the index in children of the _Extends node that _Root.render pops, or 0
ExtendsAt(heap, children) ==
    IF heap[children[1]].cls = "_Extends" THEN 1
    ELSE IF heap[children[1]].cls = "_Text" /\ heap[children[2]].cls = "_Extends" THEN 2
    ELSE 0

\* children.pop(at)
PopChild(heap, id, at) ==
    [heap EXCEPT ![id] =
        [@ EXCEPT !.children = SubSeq(@, 1, at - 1) \o SubSeq(@, at + 1, Len(@))]]

\* return _extends.render(context), after the loop over the _Block children
Root_extends(blocks, extends) ==
    IF blocks.err # "none" THEN blocks
    ELSE render(blocks.heap, extends, blocks.context, blocks.ins)

\* the has_ancestor branch of _Root.render
Root_inherit(popped, id, extends, context, inst) ==
    Root_extends(Root_blocks(popped, popped[id].children, context,
                     [inst EXCEPT !.block_dicts = Append(@, EmptyDict),
                                  !.has_ancestor = TRUE]),
                 extends)

Root_at(heap, id, context, inst, at) ==
    IF at = 0
    THEN render_children(heap, heap[id].children, context,
                         [inst EXCEPT !.has_ancestor = FALSE])
    ELSE Root_inherit(PopChild(heap, id, at), id, heap[id].children[at], context, inst)

\* _Root.render
Root_render(heap, id, context, inst) ==
    IF heap[id].children = <<>>
    THEN \* children[0]
         Res(VNone, "IndexError", heap, inst, context)
    ELSE IF heap[heap[id].children[1]].cls = "_Text" /\ Len(heap[id].children) < 2
    THEN \* children[1]
         Res(VNone, "IndexError", heap, inst, context)
    ELSE Root_at(heap, id, context, inst, ExtendsAt(heap, heap[id].children))

\* self.ins.block_dicts[-1].update({self.block_name: result}); return result
Block_record(r, block_name) ==
    IF r.err # "none" THEN r
    ELSE IF r.ins.block_dicts = <<>> THEN [r EXCEPT !.err = "IndexError"]
    ELSE [r EXCEPT !.ins.block_dicts[Len(r.ins.block_dicts)] =
                       Updated(@, Dict1(block_name, r.val.v))]

\* the branch of _Block.render of a template without ancestor
Block_base(heap, id, context, inst, override) ==
    IF override # <<>>
    THEN Res(VStr(override), "none", heap, inst, context)
    ELSE render_children(heap, heap[id].children, context, inst)

\* _Block.render
Block_render(heap, id, context, inst) ==
    IF inst.has_ancestor
    THEN Block_record(render_children(heap, heap[id].children, context, inst),
                      heap[id].block_name)
    ELSE Block_base(heap, id, context, inst,
                    lookup_block(inst.block_dicts, heap[id].block_name))

\* what a scope node returns after rendering its children against a copy
\* of the context: the mapping it was given is the one it leaves
Scoped(r, context) == [r EXCEPT !.context = context]

\* _Escape.render with 'on' taking the marker out of the children's context
Escape_render_reenabling(heap, id, context, inst) ==
    IF heap[id].direc \in {<<"off">>, <<"OFF">>}
    THEN Scoped(render_children(heap, heap[id].children,
                    Updated(context, Dict1(EscapeKey, VStr(<<"off">>))), inst),
                context)
    ELSE Scoped(render_children(heap, heap[id].children,
                    [n \in DOMAIN context \ {EscapeKey} |-> context[n]], inst),
                context)

\* _Escape.render
Escape_render(heap, id, context, inst) ==
    IF heap[id].direc \in {<<"off">>, <<"OFF">>}
    THEN Scoped(render_children(heap, heap[id].children,
                    Updated(context, Dict1(EscapeKey, VStr(<<"off">>))), inst),
                context)
    ELSE render_children(heap, heap[id].children, context, inst)

Set_children(heap, id, inst, b) ==
    IF b.err # "none" THEN Res(VNone, b.err, heap, inst, b.context)
    ELSE Scoped(render_children(heap, heap[id].children,
                    Updated(b.context, b.new_context), inst),
                b.context)

\* _Set.render
Set_render(heap, id, context, inst) ==
    Set_children(heap, id, inst, Set_bindings(heap[id].args, context, EmptyDict))

\* self.children = main_branch
AssignChildren(heap, id, main_branch) ==
    [heap EXCEPT ![id] = [@ EXCEPT !.children = main_branch]]

\* For_items with 'if empty_branch' in place of 'if not items and empty_branch'
For_items_unguarded(heap, id, context, inst, e) ==
    IF e.err # "none" THEN Res(VNone, e.err, heap, inst, context)
    ELSE IF e.val.t \notin {"str", "list"}
    THEN Res(VNone, "TypeError", heap, inst, context)
    ELSE IF heap[id].branches[2] # <<>>
    THEN render_children(AssignChildren(heap, id, heap[id].branches[1]),
                         heap[id].branches[2], context, inst)
    ELSE For_loop(AssignChildren(heap, id, heap[id].branches[1]), id, context, inst,
                  Iterate(e.val), 1)

\* _For.render once items = eval(self.raw_expr, context, {}) has returned e
For_items(heap, id, context, inst, e) ==
    IF e.err # "none" THEN Res(VNone, e.err, heap, inst, context)
    ELSE IF e.val.t \notin {"str", "list"}
    THEN \* len(items)
         Res(VNone, "TypeError", heap, inst, context)
    ELSE IF e.val.v = <<>> /\ heap[id].branches[2] # <<>>
    THEN render_children(AssignChildren(heap, id, heap[id].branches[1]),
                         heap[id].branches[2], context, inst)
    ELSE For_loop(AssignChildren(heap, id, heap[id].branches[1]), id, context, inst,
                  Iterate(e.val), 1)

\* _For.render
For_render(heap, id, context, inst) ==
    For_items(heap, id, Evaluated(context), inst, PyEval(heap[id].raw_expr, context))

\* _Raw.render
Raw_render(node) == VStr(Concat(node.children))

\* the return value of a _Variable node as a result of render
Variable_result(v, heap, inst, context) == Res(v.val, v.err, heap, inst, context)

\* node.render(context), by the class of the node
render(heap, id, context, inst) ==
    IF heap[id].cls \in ScopeClasses /\ "end_tok" \notin DOMAIN heap[id]
    THEN Res(VNone, "AttributeError", heap, inst, context)
    ELSE IF heap[id].cls \in ScopeClasses
            /\ heap[id].end_tok.clean # EndKeyword(heap[id].cls)
    THEN Res(VNone, "TemplateError", heap, inst, context)
    ELSE CASE heap[id].cls = "_Root" -> Root_render(heap, id, context, inst)
           [] heap[id].cls \in {"_Extends", "_Include"} ->
                  Template_render(heap, heap[id], context, inst)
           [] heap[id].cls = "_Block" -> Block_render(heap, id, context, inst)
           [] heap[id].cls = "_Text" ->
                  Res(VStr(heap[id].text), "none", heap, inst, context)
           [] heap[id].cls = "_Variable" ->
                  Variable_result(Variable_render(heap[id], context), heap, inst,
                                  Evaluated(context))
           [] heap[id].cls = "_Comment" -> Res(VStr(<<>>), "none", heap, inst, context)
           [] heap[id].cls = "_Escape" -> Escape_render(heap, id, context, inst)
           [] heap[id].cls = "_Set" -> Set_render(heap, id, context, inst)
           [] heap[id].cls = "_For" -> For_render(heap, id, context, inst)
           [] heap[id].cls = "_If" ->
                  If_branches(heap, heap[id].branches, context, inst)
           [] heap[id].cls = "_Raw" ->
                  Res(Raw_render(heap[id]), "none", heap, inst, context)
           [] OTHER -> \* _Empty, _Elif, _Else: pass
                       Res(VNone, "none", heap, inst, context)

-----------------------------------------------------------------------------
(* Inputs: what MiniTemplate is constructed with and what render is given *)

PlainSources ==
    { <<>>, <<"hello">>, <<"a", " ", "<", "b", ">", "\n">> }

VariableSources ==
    { VarTag(<<"x">>),
      VarTag(<<"v">>) \o <<"x">>,
      <<"a">> \o VarTag(<<"x">>) \o <<"b">>,
      VarTag(<<"x", "|", "safe">>),
      VarTag(<<"x", "|", "safe", "|", "upper">>),
      VarTag(<<"x", "|", "upper">>),
      BlockTag(<<"escape", "off">>) \o VarTag(<<"x">>) \o BlockTag(<<"endescape">>),
      BlockTag(<<"escape", "on">>) \o VarTag(<<"x">>) \o BlockTag(<<"endescape">>) }

NestingSources ==
    { BlockTag(<<"if", "a">>) \o <<"A">>,
      BlockTag(<<"if", "a">>) \o <<"A">> \o BlockTag(<<"endfor">>),
      BlockTag(<<"if", "b">>) \o BlockTag(<<"for", "i", "in", "items">>) \o <<"A">>
          \o BlockTag(<<"endif">>) \o BlockTag(<<"endif">>),
      <<"A">> \o BlockTag(<<"endif">>) \o <<"B">>,
      BlockTag(<<"endif">>),
      BlockTag(<<"raw">>) \o VarTag(<<"x">>) \o BlockTag(<<"endif">>)
          \o BlockTag(<<"endraw">>) }

ScopeSources ==
    { BlockTag(<<"set", "v", "=", "1">>) \o VarTag(<<"v">>) \o BlockTag(<<"endset">>)
          \o VarTag(<<"v">>),
      BlockTag(<<"for", "v", "in", "items">>) \o VarTag(<<"v">>)
          \o BlockTag(<<"endfor">>) \o VarTag(<<"v">>),
      BlockTag(<<"escape", "off">>) \o VarTag(<<"x">>) \o BlockTag(<<"endescape">>)
          \o VarTag(<<"x">>) }

BranchSources ==
    { BlockTag(<<"for", "i", "in", "items">>) \o VarTag(<<"i">>) \o BlockTag(<<"empty">>)
          \o <<"none">> \o BlockTag(<<"endfor">>),
      BlockTag(<<"for", "i", "in", "items">>) \o VarTag(<<"i">>) \o <<",">>
          \o BlockTag(<<"endfor">>),
      BlockTag(<<"if", "a">>) \o <<"A">> \o BlockTag(<<"elif", "b">>) \o <<"B">>
          \o BlockTag(<<"else">>) \o <<"C">> \o BlockTag(<<"endif">>),
      BlockTag(<<"if", "a">>) \o <<"A">> \o BlockTag(<<"elif", "b">>) \o <<"B">>
          \o BlockTag(<<"endif">>) }

FileSources ==
    { Path(TemplateDir, <<n>>) :
        n \in {"base", "child", "grand", "incchild", "emptychild", "textchild"} }

\* {{ loop.attr }}
LoopTag(attr) == <<"{{", " ", "loop", ".", attr, " ", "}}">>

\* loops that show the loop helper, one of them around an inner loop; a set
\* tag of two bindings; escape blocks around other blocks; default alone
HelperSources ==
    { BlockTag(<<"for", "v", "in", "items">>) \o LoopTag("index") \o LoopTag("first")
          \o LoopTag("last") \o LoopTag("length") \o VarTag(<<"v">>) \o <<";">>
          \o BlockTag(<<"endfor">>),
      BlockTag(<<"for", "v", "in", "items">>) \o BlockTag(<<"for", "w", "in", "items">>)
          \o LoopTag("index") \o BlockTag(<<"endfor">>) \o LoopTag("index")
          \o VarTag(<<"v">>) \o <<";">> \o BlockTag(<<"endfor">>),
      <<"{%", " ", "set", " ", "v", "=", "1", " ", "and", " ", "w", "=", "v", " ", "%}">>
          \o VarTag(<<"v">>) \o VarTag(<<"w">>) \o BlockTag(<<"endset">>),
      BlockTag(<<"escape", "off">>) \o BlockTag(<<"if", "x">>)
          \o <<"{%", " ", "set", " ", "w", "=", "x", " ", "%}">>
          \o BlockTag(<<"escape", "on">>) \o VarTag(<<"w">>) \o BlockTag(<<"endescape">>)
          \o BlockTag(<<"endset">>) \o BlockTag(<<"endif">>) \o BlockTag(<<"endescape">>),
      BlockTag(<<"escape", "off">>) \o BlockTag(<<"for", "v", "in", "x">>)
          \o VarTag(<<"v">>) \o BlockTag(<<"endfor">>) \o BlockTag(<<"endescape">>),
      <<"{{", " ", "x", " ", "|", " ", "default", "(", "'", "a", "'", ")", " ", "}}">> }

\* pipelines of two filters in both orders, a filter that is not registered
\* and a filter called with an argument it does not take
FilterSources ==
    { <<"{{", " ", "x", " ", "|", " ", "default", "(", "'", "a", "'", ")", " ", "|",
        " ", "upper", " ", "}}">>,
      <<"{{", " ", "x", " ", "|", " ", "upper", " ", "|", " ", "default", "(", "'",
        "a", "'", ")", " ", "}}">>,
      <<"a">> \o VarTag(<<"x", "|", "upper", "|", "nope">>) \o <<"b">>,
      <<"{{", " ", "x", " ", "|", " ", "upper", "(", "1", ")", " ", "}}">> }

\* tags the compiler rejects or should reject, and delimiters left open
MalformedSources ==
    { BlockTag(<<"bogus">>) \o <<"A">>,
      BlockTag(<<"raw">>) \o BlockTag(<<"bogus">>) \o BlockTag(<<"endraw">>),
      BlockTag(<<"for", "x", "of", "items">>) \o <<"A">> \o BlockTag(<<"endfor">>),
      BlockTag(<<"for", "x", "items">>) \o <<"A">> \o BlockTag(<<"endfor">>),
      <<"{{", " ", "x">>,
      <<"a", "{{", " ", "x">>,
      VarTag(<<"x">>) \o <<"{%", " ", "if", " ", "a">> }

\* what MiniTemplate(contents) is constructed with
Sources ==
    PlainSources \cup VariableSources \cup NestingSources \cup ScopeSources
    \cup BranchSources \cup FileSources \cup FilterSources \cup MalformedSources
    \cup HelperSources

\* the keyword arguments of render(**kwargs)
Kwargs ==
    { EmptyDict,
      Dict1("x", VStr(<<"<", "b", ">">>)),
      Dict1("x", VInt(0)),
      Updated(Dict1("a", VBool(TRUE)), Dict1("b", VBool(TRUE))),
      Updated(Dict1("a", VBool(FALSE)), Dict1("b", VBool(TRUE))),
      Updated(Dict1("a", VBool(FALSE)), Dict1("b", VBool(FALSE))),
      Dict1("items", VList(<<>>)),
      Dict1("items", VList(<<VInt(1), VInt(2), VInt(3)>>)),
      Updated(Dict1("v", VInt(7)), Dict1("items", VList(<<VInt(1)>>))) }

\* the names and values of inject_context(name, value)
InjectNames == {"x"}
InjectValues == {VStr(<<"&">>)}

-----------------------------------------------------------------------------
(* The state machine *)

\* MiniTemplate.__init__ before add_content
NewInstance == [template_dir |-> VNone, has_ancestor |-> FALSE, block_dicts |-> <<>>]

\* before the first iteration compile's loop variable is unbound
NoFragment == Fragment(<<>>)

Init ==
    /\ global_context = EmptyDict
    /\ pc = "idle"
    /\ contents = <<>>
    /\ template_string = <<>>
    /\ pending = <<>>
    /\ nodes = <<>>
    /\ scope_stack = <<>>
    /\ ins = NewInstance
    /\ merged_kwargs = EmptyDict
    /\ raised = "none"
    /\ yielded = NoFragment
    /\ calls = <<>>
    /\ injected = 0

\* the state add_content and the first lines of compile leave
Constructed(c, added) ==
    /\ pc' = "compile"
    /\ contents' = c
    /\ template_string' = added.template_string
    /\ ins' = added.ins
    /\ pending' = each_fragment(added.template_string)
    /\ nodes' = CompileStart.nodes
    /\ scope_stack' = CompileStart.scope_stack
    /\ UNCHANGED <<global_context, merged_kwargs, raised, yielded, calls, injected>>

\* MiniTemplate.__init__ up to the loop of Compiler.compile
Construct(c) ==
    /\ pc = "idle"
    /\ Constructed(c, add_content(c, NewInstance))

\* the state one iteration of compile's loop leaves
Compiled(st) ==
    /\ nodes' = st.nodes
    /\ scope_stack' = st.scope_stack
    /\ raised' = st.err
    /\ pc' = IF st.err = "none" THEN "compile" ELSE "failed"
    /\ yielded' = Head(pending)
    /\ pending' = Tail(pending)
    /\ UNCHANGED <<global_context, contents, template_string, ins, merged_kwargs,
                   calls, injected>>

\* one iteration of the loop of Compiler.compile
CompileFragment ==
    /\ pc = "compile"
    /\ pending # <<>>
    /\ Compiled(compile_step([nodes |-> nodes, scope_stack |-> scope_stack,
                              err |-> "none"],
                             Head(pending)))

\* the fragments are exhausted: compile returns root, __init__ sets self.root
CompileReturn ==
    /\ pc = "compile"
    /\ pending = <<>>
    /\ pc' = "ready"
    /\ UNCHANGED <<global_context, contents, template_string, pending, nodes,
                   scope_stack, ins, merged_kwargs, raised, yielded, calls, injected>>

\* MiniTemplate.inject_context(name, value)
InjectContext(name, value) ==
    /\ injected < MaxInject
    /\ injected' = injected + 1
    /\ global_context' = Updated(global_context, Dict1(name, value))
    /\ UNCHANGED <<pc, contents, template_string, pending, nodes, scope_stack, ins,
                   merged_kwargs, raised, yielded, calls>>

\* MergeKwargs with self.merged_kwargs = self.global_context, without copy()
MergeKwargs_shared(global, kwargs) ==
    [global_context |-> Updated(global, kwargs),
     merged_kwargs |-> Updated(global, kwargs)]

\* self.merged_kwargs = self.global_context.copy()
\* self.merged_kwargs.update(kwargs)
\* the two mappings these statements leave: update writes to the copy
MergeKwargs(global, kwargs) ==
    [global_context |-> global, merged_kwargs |-> Updated(global, kwargs)]

\* the state self.root.render(self.merged_kwargs) leaves, r being its outcome
Rendered(kwargs, merged, r) ==
    /\ global_context' = merged.global_context
    /\ merged_kwargs' = r.context
    /\ nodes' = r.heap
    /\ ins' = r.ins
    /\ raised' = r.err
    /\ calls' = Append(calls, [kwargs |-> kwargs, context |-> merged.merged_kwargs,
                               after |-> r.context, val |-> r.val, err |-> r.err])
    /\ UNCHANGED <<pc, contents, template_string, pending, scope_stack, yielded,
                   injected>>

\* result = self.root.render(self.merged_kwargs)
RenderMerged(kwargs, merged) ==
    Rendered(kwargs, merged, render(nodes, 1, merged.merged_kwargs, ins))

\* MiniTemplate.render(**kwargs)
Render(kwargs) ==
    /\ pc = "ready"
    /\ Len(calls) < MaxRenders
    /\ RenderMerged(kwargs, MergeKwargs(global_context, kwargs))

Next ==
    \/ \E c \in Sources : Construct(c)
    \/ CompileFragment
    \/ CompileReturn
    \/ \E n \in InjectNames, v \in InjectValues : InjectContext(n, v)
    \/ \E k \in Kwargs : Render(k)

Spec == Init /\ [][Next]_vars

-----------------------------------------------------------------------------
(* Properties.  The render calls made so far are in calls: the merged       *)
(* context each was given (context), the mapping it left (after), the value *)
(* it returned (val) and the exception it raised (err).                     *)

\* the six delimiter sequences
Delimiters ==
    {VAR_TOKEN_START, VAR_TOKEN_END, BLOCK_TOKEN_START, BLOCK_TOKEN_END,
     COMMENT_TOKEN_START, COMMENT_TOKEN_END}

\* a source string that contains no delimiter sequence and names no file
PlainText(s) == ~IsFile(s) /\ \A i \in 1..Len(s) : s[i] \notin Delimiters

\* the children of the Root of the compiled tree
RootChildren == IF nodes = <<>> THEN <<>> ELSE nodes[1].children

\* the nodes of the compiled tree of a class
NodesOf(cls) == {id \in DOMAIN nodes : nodes[id].cls = cls}

\* C1: for every source string s that contains no delimiter sequence (the
\* empty string and any single literal-text fragment included),
\* MiniTemplate(s).render() with an empty context returns s unchanged and
\* raises nothing.
C1_PlainTextRoundTrip ==
    \A i \in DOMAIN calls :
        (PlainText(contents) /\ calls[i].context = EmptyDict)
            => (calls[i].err = "none" /\ calls[i].val = VStr(contents))

\* C2: two render calls in a row on the same instance with the same context
\* return the same output, also for a template whose Root starts with an
\* Extends node and has Block children.
C2_RenderIdempotent ==
    \A i \in DOMAIN calls : \A j \in DOMAIN calls :
        (j = i + 1 /\ calls[i].context = calls[j].context /\ calls[i].err = "none")
            => (calls[j].err = "none" /\ calls[j].val = calls[i].val)

\* C3: when the fragments are exhausted and the scope stack holds anything
\* besides Root, Compiler.compile raises instead of returning a tree: a tree
\* is returned only with Root alone on the scope stack.
C3_UnterminatedBlockRaises ==
    pc = "ready" => scope_stack = <<1>>

\* C4: a source in which an If, For, Set, Raw or Escape scope is closed by a
\* close tag that is not the keyword of its class raises a TemplateError
\* while it is compiled: no tree is returned that holds such a scope.
C4_MismatchedEndRaisesAtCompile ==
    pc = "ready" =>
        \A id \in DOMAIN nodes :
            (nodes[id].cls \in {"_If", "_For", "_Set", "_Raw", "_Escape"}
             /\ "end_tok" \in DOMAIN nodes[id])
                => nodes[id].end_tok.clean = EndKeyword(nodes[id].cls)

\* C5: while fragments remain the scope stack of Compiler.compile is not
\* empty, and a close tag met when Root is the only open scope is reported
\* as a TemplateError, Root staying on the stack.
C5_UnmatchedCloseTag ==
    /\ (pc = "compile" /\ pending # <<>>) => scope_stack # <<>>
    /\ (pc = "failed" /\ FragType(yielded) = "CLOSE_BLOCK_FRAGMENT"
        /\ scope_stack = <<1>>)
            => raised = "TemplateError"

\* the value a pipeline of filters makes of a value, filter after filter
RECURSIVE PipelineValue(_, _)
PipelineValue(callbacks, value) ==
    IF callbacks = <<>> THEN [err |-> "none", val |-> value]
    ELSE LET r == ApplyFilter(Head(callbacks).name, value, Head(callbacks).args,
                              Head(callbacks).kwargs)
         IN  IF r.err # "none" THEN r ELSE PipelineValue(Tail(callbacks), r.val)

\* the final value of a Variable node: its expression's value, None when it
\* does not evaluate, run through the node's pipeline
FinalValue(node, context) ==
    LET e == PyEval(node.var, context)
        value == IF e.err # "none" THEN VNone ELSE e.val
    IN  IF node.has_filter THEN PipelineValue(node.callbacks, value)
        ELSE [err |-> "none", val |-> value]

\* a safe filter occurs somewhere in the pipeline of the node
SafeInPipeline(node) ==
    node.has_filter
    /\ \E k \in DOMAIN node.callbacks : node.callbacks[k].name = <<"safe">>

\* the context with the marker an Escape node with 'off' adds
MarkedOff(context) == Updated(context, Dict1(EscapeKey, VStr(<<"off">>)))

Unresolvable(id, context) ==
    /\ nodes[id].cls = "_Variable"
    /\ ~nodes[id].has_filter
    /\ PyEval(nodes[id].var, context).err # "none"

\* the text of a Text child of Root, nothing for any other child
TextOf(id) == IF nodes[id].cls = "_Text" THEN nodes[id].text ELSE <<>>

\* C7: a Variable node whose expression cannot be evaluated raises nothing
\* and contributes an empty substitution, the other nodes being rendered: a
\* template of literal text and such Variable nodes renders to its text.
C7_UnresolvableRendersEmpty ==
    \A i \in DOMAIN calls :
        (/\ \E k \in DOMAIN RootChildren : Unresolvable(RootChildren[k], calls[i].context)
         /\ \A k \in DOMAIN RootChildren :
               \/ nodes[RootChildren[k]].cls = "_Text"
               \/ Unresolvable(RootChildren[k], calls[i].context))
            => /\ calls[i].err = "none"
               /\ calls[i].val
                    = VStr(Concat([k \in DOMAIN RootChildren |-> TextOf(RootChildren[k])]))

\* C8: after the render of a Set, For or Escape node returns, the mapping it
\* was given holds the same names and values as before.
C8_ScopeIsolation ==
    \A i \in DOMAIN calls :
        \A id \in NodesOf("_Set") \cup NodesOf("_For") \cup NodesOf("_Escape") :
            LET r == render(nodes, id, calls[i].context, ins)
            IN  r.err = "none" => r.context = calls[i].context

\* the children before the first Empty marker, and those after it
BeforeEmpty(children) == SubSeq(children, 1, FirstEmpty(nodes, children) - 1)
AfterEmpty(children) ==
    SelectSeq(SubSeq(children, FirstEmpty(nodes, children) + 1, Len(children)),
              LAMBDA c : nodes[c].cls # "_Empty")

\* the text of the main branch of a For node rendered once per item, in the
\* order of the items
PerItem(id, context, items) ==
    Concat([k \in 1..Len(items) |->
        render_children(nodes, nodes[id].branches[1],
            InnerContext(context, nodes[id].loop_var, items[k], Loop(k, Len(items))),
            ins).val.v])

\* C9: a For node whose iterable is empty and whose empty branch is not
\* renders that branch once against the parent context; for a non-empty
\* iterable it renders the main branch once per item in iteration order and
\* not the empty branch; the branches are the children before and after the
\* first Empty marker.
C9_ForEmpty ==
    \A id \in NodesOf("_For") :
        /\ (pc = "ready" /\ calls = <<>> /\ "branches" \in DOMAIN nodes[id]) =>
              nodes[id].branches
                  = <<BeforeEmpty(nodes[id].children), AfterEmpty(nodes[id].children)>>
        /\ \A i \in DOMAIN calls :
              LET items == PyEval(nodes[id].raw_expr, calls[i].context)
                  r == render(nodes, id, calls[i].context, ins)
              IN  (r.err = "none" /\ items.err = "none") =>
                      IF items.val.v = <<>> /\ nodes[id].branches[2] # <<>>
                      THEN r.val = render_children(nodes, nodes[id].branches[2],
                                                   calls[i].context, ins).val
                      ELSE r.val = VStr(PerItem(id, calls[i].context, Iterate(items.val)))

\* C9 happens: the template with an empty branch was rendered with an empty
\* list and with the list [1, 2, 3]
C9_Witness ==
    /\ contents = BlockTag(<<"for", "i", "in", "items">>) \o VarTag(<<"i">>)
                  \o BlockTag(<<"empty">>) \o <<"none">> \o BlockTag(<<"endfor">>)
    /\ \E i \in DOMAIN calls :
          /\ calls[i].kwargs = Dict1("items", VList(<<>>))
          /\ calls[i].val = VStr(<<"none">>)
    /\ \E i \in DOMAIN calls :
          /\ calls[i].kwargs = Dict1("items", VList(<<VInt(1), VInt(2), VInt(3)>>))
          /\ calls[i].val = VStr(<<"1", "2", "3">>)

\* the branches of an If node whose condition is the first truthy one: every
\* condition before it evaluates and is falsy
FirstTrue(branches, context) ==
    {k \in DOMAIN branches :
        /\ PyEval(branches[k].expr, context).err = "none"
        /\ Truthy(PyEval(branches[k].expr, context).val)
        /\ \A j \in 1..(k - 1) :
              /\ PyEval(branches[j].expr, context).err = "none"
              /\ ~Truthy(PyEval(branches[j].expr, context).val)}

\* every condition of the branches evaluates and is falsy
NoneTrue(branches, context) ==
    \A k \in DOMAIN branches :
        /\ PyEval(branches[k].expr, context).err = "none"
        /\ ~Truthy(PyEval(branches[k].expr, context).val)

\* C10: an If node evaluates its conditions in source order against the
\* parent context and renders only the first branch whose condition is
\* truthy; with an Else branch one branch renders, and with no truthy
\* condition the node contributes nothing.
C10_IfFirstTrue ==
    \A i \in DOMAIN calls : \A id \in NodesOf("_If") :
        ("end_tok" \in DOMAIN nodes[id] /\ nodes[id].end_tok.clean = <<"endif">>) =>
            LET branches == nodes[id].branches
                r == render(nodes, id, calls[i].context, ins)
            IN  /\ Cardinality(FirstTrue(branches, calls[i].context)) <= 1
                /\ \A k \in FirstTrue(branches, calls[i].context) :
                      LET b == render_children(nodes, branches[k].children,
                                               calls[i].context, ins)
                      IN  r.err = b.err /\ r.val = b.val
                /\ NoneTrue(branches, calls[i].context) =>
                      (r.err = "none" /\ render_child_html(r.val) = <<>>)
                /\ (branches[Len(branches)].expr = <<"1">>
                    /\ NoneTrue(SubSeq(branches, 1, Len(branches) - 1), calls[i].context))
                      => FirstTrue(branches, calls[i].context) = {Len(branches)}

\* C10 happens: if a / elif b / else was rendered with a false and b true,
\* and the second branch alone was rendered
C10_Witness ==
    /\ contents = BlockTag(<<"if", "a">>) \o <<"A">> \o BlockTag(<<"elif", "b">>)
                  \o <<"B">> \o BlockTag(<<"else">>) \o <<"C">> \o BlockTag(<<"endif">>)
    /\ \E i \in DOMAIN calls :
          /\ calls[i].kwargs = Updated(Dict1("a", VBool(FALSE)), Dict1("b", VBool(TRUE)))
          /\ calls[i].val = VStr(<<"B">>)


\* the segments of a Variable tag after its expression: bits[1:]
Segments(node) == Tail(SplitOn(node.frag, "|"))

\* the name a segment calls: its text, trimmed, up to the first bracket
SegmentName(bit) == SubSeq(Strip(bit), 1, FirstIn(Strip(bit), {"("}) - 1)

\* fn(...f2(f1(v))...): the last filter applied to what the filters before
\* it make of v
RECURSIVE Composed(_, _)
Composed(callbacks, v) ==
    IF callbacks = <<>> THEN [err |-> "none", val |-> v]
    ELSE LET inner == Composed(SubSeq(callbacks, 1, Len(callbacks) - 1), v)
             fn == callbacks[Len(callbacks)]
         IN  IF inner.err # "none" THEN inner
             ELSE ApplyFilter(fn.name, inner.val, fn.args, fn.kwargs)

\* C11: a Variable with the pipeline f1 | f2 | ... | fn applies the filters
\* in the order they are written, each one called with the result of the one
\* before it (the value of the expression for f1) followed by its own
\* arguments: the final value is fn(...f2(f1(v))...).
C11_FilterPipelineOrder ==
    \A i \in DOMAIN calls : \A id \in NodesOf("_Variable") :
        nodes[id].has_filter =>
            LET node == nodes[id]
                v == Variable_eval(PyEval(node.var, calls[i].context))
                final == Composed(node.callbacks, v)
                out == Variable_render(node, calls[i].context)
            IN  /\ Len(node.callbacks) = Len(Segments(node))
                /\ \A k \in DOMAIN node.callbacks :
                      node.callbacks[k].name = SegmentName(Segments(node)[k])
                /\ final.err = "none" =>
                      /\ out.err = "none"
                      /\ out.val = IF SafeInPipeline(node) \/ EscapingOff(calls[i].context)
                                   THEN final.val
                                   ELSE VStr(html_escape(final.val))

\* C11 happens: {{ x | default('a') | upper }} was rendered with x = 0 and
\* returned 'A', where upper before default would have returned '0'
C11_Witness ==
    /\ contents = <<"{{", " ", "x", " ", "|", " ", "default", "(", "'", "a", "'", ")",
                    " ", "|", " ", "upper", " ", "}}">>
    /\ \E i \in DOMAIN calls :
          /\ calls[i].kwargs = Dict1("x", VInt(0))
          /\ calls[i].err = "none"
          /\ calls[i].val = VStr(<<"A">>)

\* the first step of a pipeline that fails on a value: a filter that is not
\* registered or whose call raises
RECURSIVE FailingFilter(_, _)
FailingFilter(callbacks, value) ==
    IF callbacks = <<>> THEN [fails |-> FALSE, name |-> <<>>]
    ELSE LET r == ApplyFilter(Head(callbacks).name, value, Head(callbacks).args,
                              Head(callbacks).kwargs)
         IN  IF r.err # "none" THEN [fails |-> TRUE, name |-> Head(callbacks).name]
             ELSE FailingFilter(Tail(callbacks), r.val)

\* the failing step of a Variable node with a pipeline, under a context
FailingStep(id, context) ==
    IF nodes[id].cls = "_Variable" /\ nodes[id].has_filter
    THEN FailingFilter(nodes[id].callbacks,
                       Variable_eval(PyEval(nodes[id].var, context)))
    ELSE [fails |-> FALSE, name |-> <<>>]

\* the Root has nothing but Text and Variable children
FlatTemplate ==
    /\ RootChildren # <<>>
    /\ \A k \in DOMAIN RootChildren : nodes[RootChildren[k]].cls \in {"_Text", "_Variable"}

\* C12: when a step of a pipeline names a filter that is not registered, or
\* the call of the filter raises, the Variable node raises
\* TemplateFilterError carrying the name of that filter, and the render call
\* raises it to its caller instead of returning output.
C12_FilterErrorsPropagate ==
    \A i \in DOMAIN calls :
        /\ \A id \in NodesOf("_Variable") :
              FailingStep(id, calls[i].context).fails =>
                  LET out == Variable_render(nodes[id], calls[i].context)
                  IN  /\ out.err = "TemplateFilterError"
                      /\ out.val = TemplateFilterError(FailingStep(id, calls[i].context).name)
        /\ \A k \in DOMAIN RootChildren :
              (/\ FlatTemplate
               /\ FailingStep(RootChildren[k], calls[i].context).fails
               /\ \A j \in 1..(k - 1) : ~FailingStep(RootChildren[j], calls[i].context).fails)
                  => /\ calls[i].err = "TemplateFilterError"
                     /\ calls[i].val
                          = TemplateFilterError(FailingStep(RootChildren[k],
                                                            calls[i].context).name)

\* C12 happens: a{{ x | upper | nope }}b was rendered and the call raised
\* TemplateFilterError('nope'); {{ x | upper(1) }} raises it for upper
C12_Witness ==
    /\ contents = <<"a">> \o VarTag(<<"x", "|", "upper", "|", "nope">>) \o <<"b">>
    /\ \E i \in DOMAIN calls :
          /\ calls[i].err = "TemplateFilterError"
          /\ calls[i].val = TemplateFilterError(<<"nope">>)

\* the block of the base template, tpl/base, and what the base template
\* renders to when its block contributes the text
BaseBlock == <<"c">>
BaseOutput(text) == VStr(<<"<">> \o text \o <<">">>)

\* the override maps in the order they were collected: every template of a
\* chain appends its map before it renders its ancestor, the template that
\* was asked for first
Overriding(block_dicts, n) == {k \in DOMAIN block_dicts : n \in DOMAIN block_dicts[k]}

\* the override of block n recorded by the most-derived template
MostDerived(block_dicts, n) ==
    block_dicts[CHOOSE k \in Overriding(block_dicts, n) :
                    \A j \in Overriding(block_dicts, n) : k <= j][n]

\* C13: in a chain of three or more templates whose descendants both define
\* block n, the Block n of the base template renders the override recorded
\* by the most-derived template, not the one of an intermediate ancestor.
C13_MostDerivedOverrideWins ==
    (/\ IsFile(contents)
     /\ Len(calls) = 1
     /\ calls[1].err = "none"
     /\ Cardinality(Overriding(ins.block_dicts, BaseBlock)) >= 2)
        => calls[1].val = BaseOutput(MostDerived(ins.block_dicts, BaseBlock))

\* C14: rendered as the base template, Block n returns a descendant's
\* recorded output whenever an override map contains n, whatever text the
\* override rendered to, and renders its own default children only when no
\* override map contains n.
C14_OverridePresence ==
    (/\ IsFile(contents)
     /\ Len(calls) = 1
     /\ calls[1].err = "none")
        => IF Overriding(ins.block_dicts, BaseBlock) # {}
           THEN \E k \in Overriding(ins.block_dicts, BaseBlock) :
                    calls[1].val = BaseOutput(ins.block_dicts[k][BaseBlock])
           ELSE calls[1].val = BaseOutput(<<"D">>)

\* the scope that is open while compile's loop runs: the top of the stack
ParentScope == scope_stack[Len(scope_stack)]

\* the next fragment is read while a Raw scope is open and is not the close
\* tag endraw
InsideRaw ==
    /\ pc = "compile" /\ pending # <<>> /\ scope_stack # <<>>
    /\ nodes[ParentScope].cls = "_Raw"
    /\ ~(FragType(Head(pending)) = "CLOSE_BLOCK_FRAGMENT"
         /\ Head(pending).clean = RAW_NODE_END)

\* a template that is one Raw scope, closed by endraw, and nothing else
OnlyRaw ==
    /\ Len(RootChildren) = 1
    /\ nodes[RootChildren[1]].cls = "_Raw"
    /\ "end_tok" \in DOMAIN nodes[RootChildren[1]]
    /\ nodes[RootChildren[1]].end_tok.clean = RAW_NODE_END

\* the source between the tag that opens the Raw scope and the one that
\* closes it (both are five atoms long: {% raw %} and {% endraw %})
BetweenTags(s) == SubSeq(s, 6, Len(s) - 5)

\* C15: between {% raw %} and the first {% endraw %} every fragment (text,
\* variable, comment, open tag, known or not, and close tag other than
\* endraw) is stored as its raw text without raising and without a push or
\* pop of the scope stack, and the Raw node renders as the concatenation of
\* the raw text of those fragments.
C15_RawSuppression ==
    /\ [][(InsideRaw /\ pending' # pending) =>
              /\ raised' = "none"
              /\ pc' = "compile"
              /\ scope_stack' = scope_stack
              /\ Len(nodes') = Len(nodes)
              /\ nodes'[ParentScope].children
                   = Append(nodes[ParentScope].children, Head(pending).raw)]_vars
    /\ [](\A i \in DOMAIN calls :
              (OnlyRaw /\ calls[i].err = "none")
                  => calls[i].val = VStr(BetweenTags(template_string)))

\* the render call a step makes, if it makes one
NewCall == calls'[Len(calls')]

\* C16: the top-level context of every render call is the global context
\* overlaid with the caller's keyword values, a name present in both having
\* the caller's value; render leaves every entry of the global context as
\* it was, and the global context changes only through inject_context,
\* which sets one name.
C16_GlobalContextMerge ==
    [][/\ Len(calls') > Len(calls) =>
              /\ DOMAIN NewCall.context = DOMAIN global_context \cup DOMAIN NewCall.kwargs
              /\ \A n \in DOMAIN NewCall.context :
                    NewCall.context[n] = IF n \in DOMAIN NewCall.kwargs
                                         THEN NewCall.kwargs[n]
                                         ELSE global_context[n]
              /\ global_context' = global_context
       /\ global_context' # global_context =>
              /\ injected' = injected + 1
              /\ calls' = calls
              /\ \E n \in DOMAIN global_context' :
                    \A o \in DOMAIN global_context' \ {n} :
                        o \in DOMAIN global_context
                        /\ global_context'[o] = global_context[o]]_vars

\* C16 happens: '&' was injected as x, {{ x }} was rendered with x = '<b>'
\* and the caller's value was the one rendered; x is still '&' globally
C16_Witness ==
    /\ contents = VarTag(<<"x">>)
    /\ "x" \in DOMAIN global_context
    /\ global_context["x"] = VStr(<<"&">>)
    /\ \E i \in DOMAIN calls :
          /\ calls[i].kwargs = Dict1("x", VStr(<<"<", "b", ">">>))
          /\ calls[i].context["x"] = VStr(<<"<", "b", ">">>)
          /\ calls[i].val = VStr(<<"&", "l", "t", ";", "b", "&", "g", "t", ";">>)
    /\ \E i \in DOMAIN calls :
          /\ calls[i].kwargs = EmptyDict
          /\ calls[i].val = VStr(<<"&", "a", "m", "p", ";">>)

\* C17: no render call changes a field of a node of the compiled tree (no
\* children list is reassigned or loses elements): the tree changes only
\* while it is compiled, so every render of it reads the same tree.
C17_TreeImmutableUnderRender ==
    [][/\ Len(calls') > Len(calls) => nodes' = nodes
       /\ nodes' # nodes => pc \in {"idle", "compile"}]_vars

\* the fragments each_fragment yields for the template string
Fragments == each_fragment(template_string)

\* an opening delimiter of the text with no closing delimiter of its kind
\* after it
Unterminated(raw) ==
    \E p \in DOMAIN raw :
        /\ raw[p] \in Openers
        /\ \A q \in (p + 1)..Len(raw) : raw[q] # Closer(raw[p])

\* no fragment is empty and the raw texts, in order, are the source
LexerReconstructs ==
    /\ \A k \in DOMAIN Fragments : Fragments[k].raw # <<>>
    /\ Concat([k \in DOMAIN Fragments |-> Fragments[k].raw]) = template_string

\* C18: for every source string each_fragment yields no empty fragment, the
\* raw texts of the fragments concatenated in order are the source, and an
\* opening delimiter that is never closed raises nothing and stays inside a
\* fragment of literal text.
C18_LexerReconstruction ==
    /\ LexerReconstructs
    /\ \A k \in DOMAIN Fragments :
          Unterminated(Fragments[k].raw) => FragType(Fragments[k]) = "TEXT_FRAGMENT"

\* the keywords that open-block tags may start with
Commands ==
    {<<"extends">>, <<"block">>, <<"include">>, <<"for">>, <<"empty">>, <<"if">>,
     <<"elif">>, <<"else">>, <<"set">>, <<"raw">>, <<"escape">>}

\* an open-block fragment whose first word is none of the keywords
UnknownOpen(f) ==
    /\ FragType(f) = "OPEN_BLOCK_FRAGMENT"
    /\ SplitWS(f.clean) # <<>>
    /\ SplitWS(f.clean)[1] \notin Commands

\* C19: compiling an open-block fragment whose first word is not one of
\* extends, block, include, for, empty, if, elif, else, set, raw, escape
\* raises TemplateSyntaxError at compile time, and no tree is returned.
C19_UnknownKeywordRaises ==
    /\ (pc # "idle" /\ UnknownOpen(yielded)) =>
           (pc = "failed" /\ raised = "TemplateSyntaxError")
    /\ (\E k \in DOMAIN Fragments : UnknownOpen(Fragments[k])) => pc # "ready"

\* C19 happens: the compiler has read {% bogus %} and raised
C19_Witness ==
    /\ contents = BlockTag(<<"bogus">>) \o <<"A">>
    /\ yielded.clean = <<"bogus">>
    /\ pc = "failed"
    /\ raised = "TemplateSyntaxError"

\* a for tag without the keyword in between the loop variable and the
\* iterable expression, whatever its number of words
MalformedFor(f) ==
    /\ FragType(f) = "OPEN_BLOCK_FRAGMENT"
    /\ SplitWS(f.clean) # <<>>
    /\ SplitWS(f.clean)[1] = <<"for">>
    /\ ~(Len(SplitWS(f.clean)) >= 4 /\ SplitWS(f.clean)[3] = <<"in">>)

\* C20: compiling a for tag whose body has no keyword in between the loop
\* variable and the iterable expression raises a syntax error at compile
\* time, whatever the number of words of the tag.
C20_MalformedForRaises ==
    (pc # "idle" /\ MalformedFor(yielded)) =>
        (pc = "failed" /\ raised = "TemplateSyntaxError")

\* the calls of the default filter with one positional argument in the
\* pipelines of the Variable nodes: the node and the place in its pipeline
DefaultCalls ==
    {c \in NodesOf("_Variable") \X (1..3) :
        /\ nodes[c[1]].has_filter
        /\ c[2] \in DOMAIN nodes[c[1]].callbacks
        /\ nodes[c[1]].callbacks[c[2]].name = <<"default">>
        /\ Len(nodes[c[1]].callbacks[c[2]].args) = 1
        /\ DOMAIN nodes[c[1]].callbacks[c[2]].kwargs = {}}

\* the value the filters before place k make of the node's expression
ValueBefore(node, k, context) ==
    Composed(SubSeq(node.callbacks, 1, k - 1),
             Variable_eval(PyEval(node.var, context)))

\* C21: the default filter is null-coalescing: default(value, fallback)
\* returns fallback when value is None and value itself for every other
\* value, 0, False, the empty string and the empty list included.
C21_DefaultNullCoalescing ==
    \A i \in DOMAIN calls : \A c \in DefaultCalls :
        LET cb == nodes[c[1]].callbacks[c[2]]
            before == ValueBefore(nodes[c[1]], c[2], calls[i].context)
            r == ApplyFilter(cb.name, before.val, cb.args, cb.kwargs)
        IN  before.err = "none" =>
                /\ r.err = "none"
                /\ r.val = IF before.val = VNone THEN cb.args[1] ELSE before.val

\* a freshly constructed instance of the source: what add_content leaves and
\* the tree compile returns
FreshInstance == add_content(contents, NewInstance)
FreshTree == compile_loop(CompileStart, each_fragment(FreshInstance.template_string))

\* C22: the overrides that Blocks record during one render call are not
\* consulted by a Block in a later render call on the same instance: a
\* render with context c2 that follows a render with c1 returns what a
\* freshly compiled instance of the same source returns for c2.
C22_PerRenderOverrideMap ==
    \A j \in DOMAIN calls :
        (j > 1 /\ calls[j - 1].err = "none") =>
            LET fresh == render(FreshTree.nodes, 1, calls[j].context, FreshInstance.ins)
            IN  /\ calls[j].err = fresh.err
                /\ fresh.err = "none" => calls[j].val = fresh.val

\* the position of the Extends node among the Root's children of the freshly
\* compiled source, or 0
FreshExtendsAt ==
    IF FreshTree.err # "none" \/ Len(FreshTree.nodes[1].children) < 2 THEN 0
    ELSE ExtendsAt(FreshTree.nodes, FreshTree.nodes[1].children)

\* the direct Block children of the Root of the freshly compiled source
FreshBlocks ==
    {id \in DOMAIN FreshTree.nodes :
        /\ FreshTree.nodes[id].cls = "_Block"
        /\ \E k \in DOMAIN FreshTree.nodes[1].children :
               FreshTree.nodes[1].children[k] = id}

\* the override map that the pre-rendering of the direct Block children is
\* to leave: every block name with its children's rendering
RECURSIVE OverridesOf(_, _, _)
OverridesOf(blocks, context, inst) ==
    IF blocks = {} THEN EmptyDict
    ELSE LET id == CHOOSE b \in blocks : TRUE
         IN  Updated(OverridesOf(blocks \ {id}, context, inst),
                     Dict1(FreshTree.nodes[id].block_name,
                           render_children(FreshTree.nodes, FreshTree.nodes[id].children,
                                           context, inst).val.v))

\* has-ancestor mode with a new override map, as _Root.render enters it
Inheriting(inst) ==
    [inst EXCEPT !.block_dicts = Append(@, EmptyDict), !.has_ancestor = TRUE]

\* C23: when the Root's first child (or the second after a leading Text) is
\* an Extends node, the first render of the template records the output of
\* every direct Block child in the newest override map before the parent is
\* rendered, and returns exactly the parent's rendering under these
\* overrides.
C23_ExtendsProtocolOrder ==
    (/\ Len(calls) = 1
     /\ calls[1].err = "none"
     /\ FreshExtendsAt # 0)
        => LET recorded == OverridesOf(FreshBlocks, calls[1].context,
                                       Inheriting(FreshInstance.ins))
               parent == render(FreshTree.nodes,
                                FreshTree.nodes[1].children[FreshExtendsAt],
                                calls[1].context,
                                [Inheriting(FreshInstance.ins)
                                    EXCEPT !.block_dicts = <<recorded>>])
           IN  /\ ins.block_dicts # <<>>
               /\ ins.block_dicts[1] = recorded
               /\ parent.err = "none"
               /\ calls[1].val = parent.val

\* an Elif or Else child: the markers that _If.split_children scans for
IsMarker(id) == nodes[id].cls \in {"_Elif", "_Else"}

\* the positions of the markers among children, in source order
MarkersIn(children) ==
    LET at == {i \in DOMAIN children : IsMarker(children[i])}
    IN  CHOOSE s \in [1..Cardinality(at) -> at] :
            \A i, j \in DOMAIN s : i < j => s[i] < s[j]

\* the children between the marker that opens branch k and the next one
BranchOf(children, markers, k) ==
    SubSeq(children,
           IF k = 1 THEN 1 ELSE markers[k - 1] + 1,
           IF k > Len(markers) THEN Len(children) ELSE markers[k] - 1)

\* the If nodes whose scope has been closed
SplitIfs == {id \in NodesOf("_If") : "branches" \in DOMAIN nodes[id]}

\* C24: after exit_scope the branches of an If node are one pair for the
\* if tag plus one per direct Elif/Else child, in source order; each pair
\* holds the condition of its tag and the children up to the next marker in
\* their original order, no marker lies in a branch, and an Else pair
\* carries the always-true condition '1'.
C24_IfPartitioning ==
    \A id \in SplitIfs :
        LET children == nodes[id].children
            branches == nodes[id].branches
            markers == MarkersIn(children)
        IN  /\ Len(branches) = 1 + Len(markers)
            /\ \A k \in DOMAIN branches :
                  /\ branches[k].children = BranchOf(children, markers, k)
                  /\ \A j \in DOMAIN branches[k].children :
                        ~IsMarker(branches[k].children[j])
                  /\ branches[k].expr = IF k = 1 THEN nodes[id].expr
                                        ELSE nodes[children[markers[k - 1]]].expr
                  /\ (k > 1 /\ nodes[children[markers[k - 1]]].cls = "_Else")
                        => branches[k].expr = <<"1">>
            /\ Len(children) = Len(markers) + Len(Concat([k \in DOMAIN branches |->
                                                            branches[k].children]))

\* an If node that was split into an if, an elif and an else branch, each
\* with a child
C24_Witness ==
    \E id \in SplitIfs :
        /\ Len(nodes[id].branches) = 3
        /\ \A k \in 1..3 : nodes[id].branches[k].children # <<>>
        /\ nodes[id].branches[2].expr # <<"1">>
        /\ nodes[id].branches[3].expr = <<"1">>
        /\ nodes[nodes[id].children[Len(nodes[id].children) - 1]].cls = "_Else"

\* the For nodes whose scope has been closed
SplitFors == {id \in NodesOf("_For") : "branches" \in DOMAIN nodes[id]}

\* the items a For node iterates over in a context
ItemsOf(id, context) == Iterate(PyEval(nodes[id].raw_expr, context).val)

\* a For node that iterates in a context: its expression evaluates to a
\* sequence that is not empty
Iterates(id, context) ==
    /\ PyEval(nodes[id].raw_expr, context).err = "none"
    /\ PyEval(nodes[id].raw_expr, context).val.t \in {"str", "list"}
    /\ PyEval(nodes[id].raw_expr, context).val.v # <<>>

\* the context the claim describes for the k-th item of a For node: the
\* loop variable bound to the item and loop = (index k, first, last, length)
ItemContext(id, context, k) ==
    Updated(Evaluated(context),
            Updated(Dict1(Key(nodes[id].loop_var), ItemsOf(id, context)[k]),
                    Dict1("loop",
                          [t |-> "loop",
                           v |-> [length |-> VInt(Len(ItemsOf(id, context))),
                                  index |-> VInt(k),
                                  first |-> VBool(k = 1),
                                  last |-> VBool(k = Len(ItemsOf(id, context)))]])))

\* the contexts a For node of the model's templates is rendered against:
\* those of the render calls and, for an inner loop, the item contexts of
\* the loops around it
LoopContexts ==
    {calls[i].context : i \in DOMAIN calls}
    \cup {ItemContext(f, calls[i].context, k) :
            <<i, f, k>> \in {t \in (DOMAIN calls) \X SplitFors \X (1..3) :
                                /\ Iterates(t[2], calls[t[1]].context)
                                /\ t[3] <= Len(ItemsOf(t[2], calls[t[1]].context))}}

\* the main branch of a For node rendered for its k-th item
ItemRendering(id, context, k) ==
    render_children(nodes, nodes[id].branches[1], ItemContext(id, context, k), ins)

\* C25: a For node renders its main branch once per item, in order, the
\* k-th time (k from 1) against a context that binds the loop variable to
\* the k-th item and loop to index = k, first = (k = 1), last = (k = n),
\* length = n; after each child of the main branch has been rendered, an
\* inner For among them included, the body's context still has these
\* bindings.
C25_LoopHelper ==
    \A id \in SplitFors : \A c \in LoopContexts :
        (Iterates(id, c) /\ render(nodes, id, c, ins).err = "none") =>
            LET n == Len(ItemsOf(id, c))
                main == nodes[id].branches[1]
            IN  /\ render(nodes, id, c, ins).val.v
                     = Concat([k \in 1..n |-> ItemRendering(id, c, k).val.v])
                /\ \A k \in 1..n : \A j \in 0..Len(main) :
                      LET after == render_children(nodes, SubSeq(main, 1, j),
                                                   ItemContext(id, c, k), ins).context
                      IN  /\ after[Key(nodes[id].loop_var)] = ItemsOf(id, c)[k]
                          /\ after["loop"] = ItemContext(id, c, k)["loop"]

\* a render of the loop around an inner loop over three items: the outer
\* index follows the inner loop's output in each round
C25_Witness ==
    \E i \in DOMAIN calls :
        /\ calls[i].err = "none"
        /\ calls[i].val = VStr(<<"1", "2", "3", "1", "1", ";",
                                 "1", "2", "3", "2", "2", ";",
                                 "1", "2", "3", "3", "3", ";">>)
        /\ \E id \in SplitFors : \E j \in DOMAIN nodes[id].branches[1] :
               nodes[nodes[id].branches[1][j]].cls = "_For"

\* the Set nodes whose scope was closed by endset
ClosedSets ==
    {id \in NodesOf("_Set") :
        "end_tok" \in DOMAIN nodes[id] /\ nodes[id].end_tok.clean = <<"endset">>}

\* the name and the expression of the k-th binding of a set tag
BoundName(id, k) == Strip(SplitOn(nodes[id].args[k], "=")[1])
BoundExpr(id, k) == SplitOn(nodes[id].args[k], "=")[2]

\* a set tag whose bindings all have the form name=expr
WellFormedSet(id) ==
    \A k \in DOMAIN nodes[id].args :
        /\ Len(SplitOn(nodes[id].args[k], "=")) = 2
        /\ Len(BoundName(id, k)) = 1
        /\ IsName(BoundName(id, k)[1])

\* the bindings 1..k of a set tag, every expression evaluated against the
\* context the node received, a later binding of a name replacing an
\* earlier one
RECURSIVE ParentBindings(_, _, _)
ParentBindings(id, context, k) ==
    IF k = 0 THEN EmptyDict
    ELSE Updated(ParentBindings(id, context, k - 1),
                 Dict1(BoundName(id, k)[1], PyEval(BoundExpr(id, k), context).val))

\* the contexts a Set node of the model's templates is rendered against:
\* those of the render calls, with and without the marker of escape off
SetContexts ==
    {calls[i].context : i \in DOMAIN calls}
    \cup {MarkedOff(calls[i].context) : i \in DOMAIN calls}

\* C26: every expression of a set tag is evaluated against the context the
\* Set node received, so a later expression does not see a binding made by
\* the same tag (it raises when the name is bound nowhere else), and the
\* children are rendered against one context: the parent's entries overlaid
\* with all the new bindings.
C26_SetEvaluatesInParent ==
    \A id \in ClosedSets : \A c \in SetContexts :
        WellFormedSet(id) =>
            LET failing == {k \in DOMAIN nodes[id].args :
                               PyEval(BoundExpr(id, k), c).err # "none"}
                r == render(nodes, id, c, ins)
                expected == render_children(nodes, nodes[id].children,
                                Updated(Evaluated(c),
                                        ParentBindings(id, c, Len(nodes[id].args))),
                                ins)
            IN  IF failing # {}
                THEN r.err = PyEval(BoundExpr(id,
                                 CHOOSE k \in failing : \A j \in failing : k <= j), c).err
                ELSE r.err = expected.err /\ r.val = expected.val

\* the tag set v=1 and w=v rendered with v = 7 outside: w is 7, not 1
C26_Witness ==
    /\ \E id \in ClosedSets : Len(nodes[id].args) = 2 /\ WellFormedSet(id)
    /\ \E i \in DOMAIN calls :
          /\ "v" \in DOMAIN calls[i].kwargs
          /\ calls[i].err = "none"
          /\ calls[i].val = VStr(<<"1", "7">>)

\* the Escape nodes whose scope was closed by endescape, by directive
ClosedEscapes(direcs) ==
    {id \in NodesOf("_Escape") :
        /\ "end_tok" \in DOMAIN nodes[id]
        /\ nodes[id].end_tok.clean = <<"endescape">>
        /\ nodes[id].direc \in direcs}

\* a text holds a character reference that html_escape writes: & followed
\* by amp; lt; gt; quot; or #039;
HasEntity(s) ==
    \E i \in 1..(Len(s) - 1) : s[i] = "&" /\ s[i + 1] \in {"a", "l", "g", "q", "#"}

\* C27: an escape off block renders its children against a copy of the
\* context that carries the escaping-disabled marker, and what it returns
\* holds no escaped character whatever blocks (for, if, set, escape on) lie
\* between it and a Variable; an escape on block renders its children
\* against the context it received, marked or not.
C27_EscapeDirective ==
    \A c \in SetContexts :
        /\ \A id \in ClosedEscapes({<<"off">>, <<"OFF">>}) :
              LET r == render(nodes, id, c, ins)
                  marked == render_children(nodes, nodes[id].children, MarkedOff(c), ins)
              IN  /\ r.err = marked.err
                  /\ r.val = marked.val
                  /\ r.context = c
                  /\ r.err = "none" => ~HasEntity(r.val.v)
        /\ \A id \in ClosedEscapes({<<"on">>, <<"ON">>}) :
              LET r == render(nodes, id, c, ins)
                  same == render_children(nodes, nodes[id].children, c, ins)
              IN  r.err = same.err /\ r.val = same.val /\ r.context = same.context

\* a Variable under escape on, set and if inside an escape off block,
\* rendered with x = '<b>': the text comes out as it is
C27_Witness ==
    /\ \E id \in ClosedEscapes({<<"off">>}) : \E k \in NodesOf("_If") :
          /\ nodes[id].children = <<k>>
          /\ ClosedEscapes({<<"on">>}) # {}
    /\ \E i \in DOMAIN calls :
          /\ calls[i].err = "none"
          /\ calls[i].val = VStr(<<"<", "b", ">">>)

\* the places (parent, position) at which node id is a child; the children
\* of a Raw node are text spans, not nodes
ParentsOf(id) ==
    {pl \in (DOMAIN nodes) \X (1..Len(nodes)) :
        /\ nodes[pl[1]].cls # "_Raw"
        /\ pl[2] \in DOMAIN nodes[pl[1]].children
        /\ nodes[pl[1]].children[pl[2]] = id}

\* the scope-creating nodes that no close tag has closed yet
OpenScopes ==
    {id \in DOMAIN nodes : nodes[id].cls \in ScopeClasses /\ "end_tok" \notin DOMAIN nodes[id]}

\* the compiled nodes form a tree under Root and the stack lists Root and
\* then the open scopes, each a child of the one before it
TreeShape ==
    (pc \in {"compile", "ready", "failed"} /\ calls = <<>>) =>
        /\ ParentsOf(1) = {}
        /\ \A id \in DOMAIN nodes : id > 1 => Cardinality(ParentsOf(id)) = 1
        /\ \A id \in DOMAIN nodes : \A pl \in ParentsOf(id) : pl[1] < id
        /\ scope_stack # <<>> /\ scope_stack[1] = 1
        /\ \A k \in 2..Len(scope_stack) :
              \E j \in 1..Len(nodes) : <<scope_stack[k - 1], j>> \in ParentsOf(scope_stack[k])
        /\ {scope_stack[k] : k \in 2..Len(scope_stack)} = OpenScopes

\* a step of compile's loop on a fragment that is no close tag, outside Raw:
\* unless create_node raises, one node is made, appended to the children of
\* the innermost open scope only, and pushed iff it creates a scope
AppendsToInnermost ==
    IF raised' # "none"
    THEN nodes' = nodes /\ scope_stack' = scope_stack
    ELSE /\ Len(nodes') = Len(nodes) + 1
         /\ nodes'[ParentScope].children
              = Append(nodes[ParentScope].children, Len(nodes) + 1)
         /\ \A id \in DOMAIN nodes : id # ParentScope => nodes'[id] = nodes[id]
         /\ nodes'[Len(nodes')].children = <<>>
         /\ scope_stack' = IF nodes'[Len(nodes')].cls \in ScopeClasses
                           THEN Append(scope_stack, Len(nodes'))
                           ELSE scope_stack

\* a step of compile's loop on a close tag, outside Raw: the innermost open
\* scope gets the fragment as its end token, its exit_scope has run (a For
\* or If has its branches, which it had not before) and it alone leaves the
\* stack; with Root alone on the stack nothing is closed and compile raises
ClosesInnermost ==
    IF ParentScope = 1
    THEN raised' # "none" /\ nodes' = nodes /\ scope_stack' = scope_stack
    ELSE /\ raised' = "none"
         /\ scope_stack' = Pop(scope_stack)
         /\ Len(nodes') = Len(nodes)
         /\ nodes'[ParentScope].end_tok = Head(pending)
         /\ nodes'[ParentScope].children = nodes[ParentScope].children
         /\ "branches" \notin DOMAIN nodes[ParentScope]
         /\ nodes[ParentScope].cls \in {"_For", "_If"}
               <=> "branches" \in DOMAIN nodes'[ParentScope]
         /\ \A id \in DOMAIN nodes : id # ParentScope => nodes'[id] = nodes[id]

IncludesInBlocks ==
    {id \in DOMAIN FreshTree.nodes :
        /\ FreshExtendsAt # 0
        /\ FreshTree.nodes[id].cls = "_Include"
        /\ \E b \in FreshBlocks : \E j \in DOMAIN FreshTree.nodes[b].children :
               FreshTree.nodes[b].children[j] = id}

\* C29: rendering an Include node inside a Block of a template that has an
\* ancestor leaves the has-ancestor mode and the override maps as they
\* were, so after the render every direct Block child, the ones after that
\* block included, has its output in the override map of the template.
C29_IncludeKeepsInheritanceMode ==
    \A i \in DOMAIN calls : \A id \in IncludesInBlocks :
        LET r == render(FreshTree.nodes, id, calls[i].context,
                        Inheriting(FreshInstance.ins))
        IN  r.err = "none" =>
                /\ r.ins.has_ancestor
                /\ r.ins.block_dicts = Inheriting(FreshInstance.ins).block_dicts
                /\ (i = 1 /\ calls[1].err = "none") =>
                      /\ ins.block_dicts # <<>>
                      /\ \A b \in FreshBlocks :
                            FreshTree.nodes[b].block_name \in DOMAIN ins.block_dicts[1]

\* the characters html_escape replaces
HtmlSpecial == {"&", "<", ">", "\"", "'"}

\* a value whose string form holds no character that html_escape replaces
PlainValue(val) == \A j \in DOMAIN PyStr(val) : PyStr(val)[j] \notin HtmlSpecial

\* what a Variable node contributes to the output of the scope around it:
\* render_children's text for the value the node returns
Contribution(node, context) ==
    render_child_html(Variable_render(node, context).val)

\* C30: a Variable whose final value has a string form without HTML-special
\* characters (0 and False among them) contributes the same text to the
\* output whether escaping is in force or is disabled by a safe filter or
\* by the marker of an escape off block.
C30_EscapingModeOnlyEscapes ==
    \A i \in DOMAIN calls : \A id \in NodesOf("_Variable") :
        LET final == FinalValue(nodes[id], calls[i].context)
        IN  (/\ final.err = "none"
             /\ final.val.t \in {"none", "bool", "int", "str", "list"}
             /\ PlainValue(final.val))
                => /\ Contribution(nodes[id], calls[i].context) = PyStr(final.val)
                   /\ Contribution(nodes[id], MarkedOff(calls[i].context))
                        = PyStr(final.val)
====
